---- MODULE Spec2Model ----
(***************************************************************************)
(* Model of the SolidTime integration plugin (main.ts, src/api.ts): the    *)
(* timer session controller (activeTimeEntry and the start / stop /        *)
(* update / refresh operations), the transport's classification of an      *)
(* HTTP answer and the member-id resolution, against a remote service      *)
(* that keeps at most one active time entry per user. Beside it: the       *)
(* paginated fetch, the caches of projects, tasks and tags with the tag    *)
(* modal (src/modals.ts), and the settings tab (src/settings.ts) with      *)
(* saveSettings and the two interval timers.                               *)
(*                                                                         *)
(* Every operation is an async function: it runs synchronously up to an    *)
(* await of a network request, and resumes when the answer is delivered.   *)
(* An operation in flight is an element of `tasks`, which lists them in    *)
(* the order their pending requests were issued. A request is issued (the  *)
(* task's pc names it), handled by the service when it reads or writes the *)
(* active entry (Serve puts the raw answer in the task), and its answer is *)
(* then delivered: the continuation runs on it. A request can also fail:   *)
(* its continuation then runs on a failure answer, whether or not the      *)
(* service had handled the request. Answers of different requests may be   *)
(* delivered in any order.                                                 *)
(***************************************************************************)
EXTENDS Integers, Sequences, FiniteSets, TLC

\* ------------------------------------------------------------------ bounds
MaxOps   == 2   \* operations invoked in one behaviour
MaxTasks == 2   \* operations in flight at the same time

\* ------------------------------------------------------------------ values
Null   == [null |-> TRUE]      \* JS null for an object reference
NoStr  == "null"               \* JS null / '' for a string field
NoResp == [status |-> -1]      \* request issued, no answer yet
NoBody == [none |-> TRUE]      \* a request without a body (GET)
NoUpd  == [none |-> TRUE]

Orgs   == {"o1", "o2", "o3"}
Me     == "u1"                 \* the id /v1/users/me reports


VARIABLES
    settings,        \* plugin.settings
    currentUser,     \* plugin.currentUser: NoStr or the user's id
    activeTimeEntry, \* plugin.activeTimeEntry: Null or a TimeEntryResource
    statusBar,       \* the text of plugin.statusBarItemEl
    tasks,           \* operations in flight, oldest pending request first
    srvActive,       \* service: the user's active entry, or Null
    srvNextId,       \* service: id of the next entry it creates
    srvMembers,      \* service: organization -> list of members
    nOps,            \* operations invoked so far
    ev,              \* what the last step did (observation only)
    api,             \* plugin.api: Null or the client's key and base URL
    data,            \* plugin.projects, plugin.tasks, plugin.tags
    statusIntervalId, \* plugin.statusIntervalId, 0 for null
    fetchIntervalId, \* plugin.fetchIntervalId, 0 for null
    window,          \* the intervals armed by window.setInterval
    modal,           \* the open TagSelectionModal, or Null
    srvData,         \* service: projects, tasks and tags of the organization
    pager            \* a run of fetchAllPaginated and the pages it reads

\* The caches and what feeds them; the interval timers.
cacheVars == <<data, modal, srvData, pager>>
timerVars == <<statusIntervalId, fetchIntervalId, window>>

vars == <<settings, currentUser, activeTimeEntry, statusBar, tasks, srvActive,
          srvNextId, srvMembers, nOps, ev, api, cacheVars, timerVars>>

\* A TimeEntryResource.
Entry(id, org, end, billable, description, project_id, task_id, tags) ==
    [id |-> id, organization_id |-> org, start |-> "T", end |-> end,
     billable |-> billable, description |-> description,
     project_id |-> project_id, task_id |-> task_id, tags |-> tags]

\* What a continuation leaves of an operation that has returned.
Returned == [op |-> "none", pc |-> "idle", entry |-> Null, upd |-> NoUpd,
             org |-> NoStr, body |-> NoBody, resp |-> NoResp, stale |-> FALSE]

\* The inputs of startTimer the view and the modal pass.
StartOptions ==
    { [description |-> "a", projectId |-> "p1", taskId |-> NoStr,
       tagIds |-> <<>>, billable |-> FALSE],
      [description |-> "b", projectId |-> NoStr, taskId |-> NoStr,
       tagIds |-> <<"t1">>, billable |-> TRUE] }

\* The inputs of updateActiveTimerDetails the view passes.
UpdateInputs ==
    { [billable |-> TRUE], [description |-> "b"] }

\* Inputs of updateActiveTimerDetails naming other fields, several fields
\* and none: the view's project and tag pickers, and what the signature
\* accepts beside them.
MoreUpdateInputs ==
    { [tagIds |-> <<"t1", "t2">>],
      [projectId |-> "p2", taskId |-> "k1"],
      [projectId |-> NoStr, taskId |-> NoStr, description |-> "c",
       tagIds |-> <<>>, billable |-> TRUE] }

\* ------------------------------------------------- the remote service
\* The member of organization org that belongs to user u, as the service
\* authorizes writes: the id a write must carry.
SrvMemberIds(org, u) ==
    { srvMembers[org][i].id : i \in { j \in 1..Len(srvMembers[org]) :
                                        srvMembers[org][j].user_id = u } }

\* GET /v1/users/me
SrvMe == [status |-> 200, data |-> [id |-> Me]]

\* GET /v1/organizations/{org}/members, all pages
SrvGetMembers(org) == [status |-> 200, data |-> srvMembers[org]]

\* GET /v1/users/me/time-entries/active: the entry, or 404 meaning none
SrvGetActive ==
    IF srvActive = Null THEN [status |-> 404]
    ELSE [status |-> 200, data |-> srvActive]

\* The entry POST .../time-entries creates from a start payload.
SrvCreated(org, body) ==
    Entry(srvNextId, org, NoStr, body.billable, body.description,
          body.project_id, body.task_id, body.tags)

\* POST is accepted when the member id is the user's in that organization
\* and the user has no active entry.
SrvPostAccepts(org, body) ==
    /\ body.member_id \in SrvMemberIds(org, Me)
    /\ srvActive = Null

\* The entry PUT .../time-entries/{id} answers with: the stored entry with
\* the payload's fields, ended when the payload has an end or the entry is
\* no longer the active one.
SrvPutResult(org, id, body) ==
    Entry(id, org,
          IF "end" \in DOMAIN body THEN body.end
          ELSE IF srvActive # Null /\ srvActive.id = id THEN NoStr ELSE "T",
          body.billable, body.description, body.project_id, body.task_id,
          body.tags)

SrvPutAccepts(org, body) == body.member_id \in SrvMemberIds(org, Me)

\* The active entry after an accepted PUT.
SrvActiveAfterPut(org, id, body) ==
    IF srvActive = Null \/ srvActive.id # id THEN srvActive
    ELSE IF "end" \in DOMAIN body THEN Null
    ELSE SrvPutResult(org, id, body)

\* The ways a request fails: a server error or no answer at all (status 0)
\* and, for the one request whose handler tells them apart (the status
\* refresh), an authentication failure.
FailStatuses(pc) ==
    IF pc = "status" THEN {401, 403, 500, 0} ELSE {500, 0}

\* -------------------------------------------------------- the transport
\* The body of a raw answer is text that is no JSON.
Unparsable(resp) == "unparsable" \in DOMAIN resp

\* SolidTimeApi.request on a raw answer: the parsed body, null, or an error
\* (`status` is the status its message carries, 0 when it carries none).
\* Reading response.json of a body that is no JSON throws inside the try.
Request(resp, allowedNon2xxStatuses) ==
    IF resp.status = 0
    THEN [ok |-> FALSE, null |-> FALSE, status |-> 0]
    ELSE IF (resp.status >= 200 /\ resp.status < 300)
              \/ resp.status \in allowedNon2xxStatuses
    THEN IF resp.status = 204 \/ resp.status \in allowedNon2xxStatuses
         THEN [ok |-> TRUE, null |-> TRUE, status |-> resp.status]
         ELSE IF Unparsable(resp)
         THEN [ok |-> FALSE, null |-> FALSE, status |-> 0]
         ELSE IF "data" \notin DOMAIN resp
         THEN [ok |-> TRUE, null |-> TRUE, status |-> resp.status]
         ELSE [ok |-> TRUE, null |-> FALSE, status |-> resp.status,
               data |-> resp.data]
    ELSE [ok |-> FALSE, null |-> FALSE, status |-> resp.status]

\* The catch of request(): a notice 'SolidTime Network Error', unless the
\* error is the one request() threw itself (its message starts with
\* 'SolidTime API Error:'), which it has announced already.
CatchNoticesAlways(apiError) == 1

CatchNotices(apiError) == IF apiError THEN 0 ELSE 1

\* The error request() caught is one it threw itself on a status that is
\* neither 2xx nor allowed.
ApiError(resp, allowedNon2xxStatuses) ==
    /\ resp.status # 0
    /\ ~(resp.status >= 200 /\ resp.status < 300)
    /\ resp.status \notin allowedNon2xxStatuses

\* The `SolidTime Network Error` notices request() shows on a raw answer.
NetworkNotices(resp, allowedNon2xxStatuses) ==
    IF Request(resp, allowedNon2xxStatuses).ok THEN 0
    ELSE CatchNotices(ApiError(resp, allowedNon2xxStatuses))

\* The notices SolidTimeApi.request shows on a raw answer.
RequestNotices(resp, allowedNon2xxStatuses) ==
    IF Request(resp, allowedNon2xxStatuses).ok THEN 0
    ELSE IF ApiError(resp, allowedNon2xxStatuses)
    THEN 1 + CatchNotices(TRUE)
    ELSE CatchNotices(FALSE)

\* The statuses getActiveTimeEntry passes as allowed: 404 means no entry.
ActiveAllowedNone == {}

ActiveAllowed == {404}

\* The allow-list of the request a task awaits.
AllowedOf(pc) == IF pc = "status" THEN ActiveAllowed ELSE {}

\* ---------------------------------------------------- the resource client
\* Each operator is the method's result on the raw answer of its request:
\* [ok |-> TRUE, val |-> ...] or [ok |-> FALSE, status |-> ...] (it throws).
Threw(r) == [ok |-> FALSE, status |-> r.status]

getMe(resp) ==
    LET r == Request(resp, {}) IN
    IF ~r.ok THEN Threw(r)
    ELSE IF r.null THEN [ok |-> FALSE, status |-> r.status]
    ELSE [ok |-> TRUE, val |-> r.data]

\* A getMembers that answers a failure with the membership it knows of.
getMembersFallback(resp) ==
    LET r == Request(resp, {}) IN
    IF ~r.ok \/ r.null
    THEN <<[id |-> settings.selectedMemberId, user_id |-> currentUser]>>
    ELSE r.data

\* getMembers never throws: an empty list on any failure.
getMembers(resp) ==
    LET r == Request(resp, {}) IN
    IF ~r.ok \/ r.null THEN <<>> ELSE r.data

getActiveTimeEntry(resp) ==
    LET r == Request(resp, ActiveAllowed) IN
    IF ~r.ok THEN Threw(r)
    ELSE IF r.null THEN [ok |-> TRUE, val |-> Null]
    ELSE [ok |-> TRUE, val |-> r.data]

startTimeEntry(resp) ==
    LET r == Request(resp, {}) IN
    IF ~r.ok THEN Threw(r)
    ELSE IF r.null THEN [ok |-> FALSE, status |-> r.status]
    ELSE [ok |-> TRUE, val |-> r.data]

stopTimeEntry(resp) ==
    LET r == Request(resp, {}) IN
    IF ~r.ok THEN Threw(r)
    ELSE IF r.null THEN [ok |-> FALSE, status |-> r.status]
    ELSE [ok |-> TRUE, val |-> r.data]

\* members.find(member => member.user_id === currentUser.id): the index of
\* the first such member, 0 when there is none.
FindMember(members, userId) ==
    LET hits == { i \in 1..Len(members) : members[i].user_id = userId } IN
    IF hits = {} THEN 0
    ELSE CHOOSE i \in hits : \A j \in hits : i <= j


\* ------------------------------------------------------------- payloads
\* tagIds.length > 0 ? tagIds : null   (null and [] are both <<>> here)
StartPayload(memberId, options) ==
    [member_id |-> memberId, start |-> "T", billable |-> options.billable,
     project_id |-> options.projectId, task_id |-> options.taskId,
     description |-> options.description,
     tags |-> IF Len(options.tagIds) > 0 THEN options.tagIds ELSE <<>>]

\* A stop payload that echoes the entry's start as well.
StopPayloadWithStart(memberId, entryToStop) ==
    [member_id |-> memberId, start |-> entryToStop.start, end |-> "T",
     billable |-> entryToStop.billable,
     project_id |-> entryToStop.project_id, task_id |-> entryToStop.task_id,
     description |-> entryToStop.description, tags |-> entryToStop.tags]

StopPayload(memberId, entryToStop) ==
    [member_id |-> memberId, end |-> "T", billable |-> entryToStop.billable,
     project_id |-> entryToStop.project_id, task_id |-> entryToStop.task_id,
     description |-> entryToStop.description, tags |-> entryToStop.tags]

\* An update payload of the changes alone, the other fields empty.
UpdatePayloadChangesOnly(memberId, entryToUpdate, updates) ==
    [member_id |-> memberId,
     billable |-> IF "billable" \in DOMAIN updates
                  THEN updates.billable ELSE FALSE,
     project_id |-> IF "projectId" \in DOMAIN updates
                    THEN updates.projectId ELSE NoStr,
     task_id |-> IF "taskId" \in DOMAIN updates
                 THEN updates.taskId ELSE NoStr,
     description |-> IF "description" \in DOMAIN updates
                     THEN updates.description ELSE NoStr,
     tags |-> IF "tagIds" \in DOMAIN updates
              THEN updates.tagIds ELSE <<>>]

UpdatePayload(memberId, entryToUpdate, updates) ==
    [member_id |-> memberId,
     billable |-> IF "billable" \in DOMAIN updates
                  THEN updates.billable ELSE entryToUpdate.billable,
     project_id |-> IF "projectId" \in DOMAIN updates
                    THEN updates.projectId ELSE entryToUpdate.project_id,
     task_id |-> IF "taskId" \in DOMAIN updates
                 THEN updates.taskId ELSE entryToUpdate.task_id,
     description |-> IF "description" \in DOMAIN updates
                     THEN updates.description ELSE entryToUpdate.description,
     tags |-> IF "tagIds" \in DOMAIN updates
              THEN updates.tagIds ELSE entryToUpdate.tags]

\* ------------------------------------------------------------ the plugin
\* The request of task t has not been handled by the service.
Pending(t) == tasks[t].resp.status = -1

\* The answers that can be delivered to task t now. The user and the
\* member lists do not change, so the service's answer to those requests
\* is taken when it is delivered; the answer to a request about the active
\* entry is the one Serve recorded. Any request can fail instead: with an
\* error status when the service had not
\* handled it, with no answer at all (status 0) in either case.
Answers(t) ==
    (IF tasks[t].pc = "me" THEN {SrvMe}
     ELSE IF tasks[t].pc = "members" THEN {SrvGetMembers(tasks[t].org)}
     ELSE IF Pending(t) THEN {} ELSE {tasks[t].resp})
    \cup
    (IF tasks[t].pc \in {"me", "members"} \/ Pending(t)
     THEN {[status |-> f] : f \in FailStatuses(tasks[t].pc)}
     ELSE {[status |-> 0]})

\* An operation can be invoked: the behaviour's budget and room in flight.
CanInvoke == nOps < MaxOps /\ Len(tasks) < MaxTasks

Remove(seq, t) == SubSeq(seq, 1, t - 1) \o SubSeq(seq, t + 1, Len(seq))

\* The operations in flight once a new operation has run up to its first
\* await (k awaits) or has returned without one (k = Returned).
Invoked(k) == IF k.pc = "idle" THEN tasks ELSE Append(tasks, k)

\* The operations in flight once the operation at t has resumed and run
\* up to its next await (k awaits, its request is the newest) or returned.
Resumed(t, k) ==
    IF k.pc = "idle" THEN Remove(tasks, t) ELSE Append(Remove(tasks, t), k)

\* As Resumed(t, k), when resuming applied an answer to activeTimeEntry:
\* the requests issued before that of t and still pending are older than
\* the answer applied last (`stale` records it; nothing reads it).
Applied(t, k) ==
    LET marked == [i \in DOMAIN tasks |->
                     IF i < t /\ tasks[i].pc \in {"status", "post", "put"}
                     THEN [tasks[i] EXCEPT !.stale = TRUE] ELSE tasks[i]]
        rest == SubSeq(marked, 1, t - 1) \o SubSeq(marked, t + 1, Len(marked))
    IN IF k.pc = "idle" THEN rest ELSE Append(rest, k)

\* The observation of a step: the handler that ran, the operation it
\* belongs to, its task (0 for an invocation), the operations in flight
\* and the cached entry before the step, the answer delivered, the notices
\* the transport showed on that answer, the notices the plugin showed in
\* the step (in order) and whether it called updateSolidTimeView.
Ev(kind, op, t, resp, said, view) ==
    [kind |-> kind, op |-> op, t |-> t, n |-> Len(tasks),
     prev |-> activeTimeEntry, resp |-> resp,
     transport |-> IF t = 0 \/ resp = NoResp THEN 0
                   ELSE RequestNotices(resp, AllowedOf(tasks[t].pc)),
     network |-> IF t = 0 \/ resp = NoResp THEN 0
                 ELSE NetworkNotices(resp, AllowedOf(tasks[t].pc)),
     said |-> said, view |-> view]

\* renderStatusBar: the running display, or the idle text.
renderStatusBar(entry) ==
    IF entry # Null /\ entry.start # NoStr THEN "Running"
    ELSE IF api # Null /\ settings.selectedOrganizationId # NoStr THEN "Idle"
    ELSE "SetupNeeded"

\* A task awaiting the answer of a request it has just issued.
Await(op, pc, entry, upd, org, body) ==
    [op |-> op, pc |-> pc, entry |-> entry, upd |-> upd, org |-> org,
     body |-> body, resp |-> NoResp, stale |-> FALSE]

\* setupApi: the client the settings call for, none without key or URL.
setupApi ==
    IF settings.apiKey # NoStr /\ settings.apiBaseUrl # NoStr
    THEN [apiKey |-> settings.apiKey, baseUrl |-> settings.apiBaseUrl]
    ELSE Null

\* checkSettingsAndApi: key, URL and organization are set (a missing client
\* is then set up by the check itself).
checkSettingsAndApi ==
    /\ settings.apiKey # NoStr /\ settings.apiBaseUrl # NoStr
    /\ settings.selectedOrganizationId # NoStr

\* The client once checkSettingsAndApi has run.
ApiChecked == IF checkSettingsAndApi /\ api = Null THEN setupApi ELSE api

\* startTimer without the check of the cached entry.
StartRefusedNoActiveCheck ==
    \/ ~checkSettingsAndApi
    \/ settings.selectedMemberId = NoStr

\* A startTimer that also waits for the operations in flight to end.
StartRefusedWhileBusy ==
    \/ ~checkSettingsAndApi
    \/ settings.selectedMemberId = NoStr
    \/ activeTimeEntry # Null
    \/ tasks # <<>>

\* startTimer returns before any request.
StartRefused ==
    \/ ~checkSettingsAndApi
    \/ settings.selectedMemberId = NoStr
    \/ activeTimeEntry # Null

\* The notice startTimer shows before it returns or awaits.
StartSaid ==
    IF ~checkSettingsAndApi THEN <<"configure">>
    ELSE IF settings.selectedMemberId = NoStr THEN <<"member-missing">>
    ELSE IF activeTimeEntry # Null THEN <<"stop-first">>
    ELSE <<"starting">>

\* The member id startTimer puts in the POST.
StartMemberId == settings.selectedMemberId

startTimer(options) ==
    /\ CanInvoke
    /\ nOps' = nOps + 1
    /\ tasks' = Invoked(IF StartRefused THEN Returned
                        ELSE Await("start", "post", Null, NoUpd,
                                   settings.selectedOrganizationId,
                                   StartPayload(StartMemberId, options)))
    /\ ev' = Ev("startTimer", "start", 0, NoResp, StartSaid, FALSE)
    /\ api' = ApiChecked
    /\ UNCHANGED <<settings, currentUser, activeTimeEntry, statusBar,
                   srvActive, srvNextId, srvMembers>>
    /\ UNCHANGED <<cacheVars, timerVars>>

\* A start that caches an entry built from the payload it sent.
StartedEntryLocal(r, k) ==
    Entry(0, k.org, NoStr, k.body.billable, k.body.description,
          k.body.project_id, k.body.task_id, k.body.tags)

\* The entry a successful start caches: newEntry, the server's.
StartedEntry(r, k) == r.val

\* A start that sends its POST again when it failed.
StartAfterPostRetrying(t, resp) ==
    /\ resp \in Answers(t)
    /\ tasks[t].op = "start" /\ tasks[t].pc = "post"
    /\ LET r == startTimeEntry(resp) IN
        /\ activeTimeEntry' = IF r.ok THEN r.val ELSE activeTimeEntry
        /\ statusBar' = IF r.ok THEN renderStatusBar(activeTimeEntry')
                        ELSE statusBar
        /\ tasks' = IF r.ok THEN Applied(t, Returned)
                    ELSE Resumed(t, [tasks[t] EXCEPT !.resp = NoResp])
        /\ ev' = Ev("StartAfterPost", tasks[t].op, t, resp,
                    IF r.ok THEN <<"started">> ELSE <<>>, r.ok)
    /\ UNCHANGED <<settings, currentUser, srvActive, srvNextId, srvMembers,
                   nOps>>
    /\ UNCHANGED <<api, cacheVars, timerVars>>

\* startTimer resumes with the answer of its POST: the server's entry is
\* cached and shown, or the failure is logged.
StartAfterPost(t, resp) ==
    /\ resp \in Answers(t)
    /\ tasks[t].op = "start" /\ tasks[t].pc = "post"
    /\ LET r == startTimeEntry(resp) IN
        /\ activeTimeEntry' = IF r.ok THEN StartedEntry(r, tasks[t])
                              ELSE activeTimeEntry
        /\ statusBar' = IF r.ok THEN renderStatusBar(activeTimeEntry')
                        ELSE statusBar
        /\ tasks' = IF r.ok THEN Applied(t, Returned) ELSE Resumed(t, Returned)
        /\ ev' = Ev("StartAfterPost", tasks[t].op, t, resp,
                    IF r.ok THEN <<"started">> ELSE <<>>, r.ok)
    /\ UNCHANGED <<settings, currentUser, srvActive, srvNextId, srvMembers,
                   nOps>>
    /\ UNCHANGED <<api, cacheVars, timerVars>>

\* updateStatus up to its await: the request, or a return at once when
\* there is no API client.
updateStatus(op) ==
    IF api = Null THEN Returned
    ELSE Await(op, "status", Null, NoUpd, NoStr, NoBody)

\* updateStatus called by a write whose PUT has failed: the write's frame
\* still holds the entry it took before the write (entryToStop,
\* entryToUpdate).
Refetch(op, k) ==
    IF api = Null THEN Returned
    ELSE Await(op, "status", k.entry, NoUpd, NoStr, NoBody)

\* The cached entry once updateStatus has run up to its await: cleared when
\* there is no API client (the status bar text never starts with the icon
\* that branch looks for, and is left alone).
StatusRefused(entry) == IF api = Null THEN Null ELSE entry

\* An updateStatus that keeps a cached entry when the answer reports none.
StatusEntryKeepRunning(r) ==
    IF r.ok THEN (IF r.val = Null THEN activeTimeEntry ELSE r.val) ELSE Null

\* An updateStatus that keeps the cached entry when the refresh failed.
StatusEntryKeepOnFailure(r) == IF r.ok THEN r.val ELSE activeTimeEntry

\* An updateStatus that takes the answer's entry only when none is cached.
StatusEntryIfIdle(r) ==
    IF ~r.ok THEN Null
    ELSE IF activeTimeEntry = Null THEN r.val ELSE activeTimeEntry

\* The entry updateStatus leaves: the answer's, or none when it failed.
StatusEntry(r) == IF r.ok THEN r.val ELSE Null

\* A failure text that ignores the status of the failure.
FailureTextGeneric(status) == "Error"

\* The status bar text updateStatus sets when the refresh failed: the error
\* message names status 401 or 403, or anything else.
FailureText(status) ==
    IF status \in {401, 403} THEN "AuthError" ELSE "Error"

\* The notices updateStatus and the caller that awaited it show once it has
\* its answer: the authentication notice, then the notice of a failed stop.
StatusSaid(op, r) ==
    (IF ~r.ok /\ FailureText(r.status) = "AuthError"
     THEN <<"auth-error">> ELSE <<>>)
    \o (IF op = "stop" THEN <<"stop-failed">> ELSE <<>>)

\* The status interval fires.
UpdateStatusTick ==
    /\ CanInvoke
    /\ \E i \in window.intervals : i.fn = "updateStatus"
    /\ nOps' = nOps + 1
    /\ tasks' = Invoked(updateStatus("refresh"))
    /\ activeTimeEntry' = StatusRefused(activeTimeEntry)
    /\ ev' = Ev("updateStatus", "refresh", 0, NoResp, <<>>, FALSE)
    /\ UNCHANGED <<settings, currentUser, statusBar,
                   srvActive, srvNextId, srvMembers>>
    /\ UNCHANGED <<api, cacheVars, timerVars>>

\* updateStatus resumes with the answer of getActiveTimeEntry; a caller
\* (a failed stop or update) has nothing left to do but a notice.
UpdateStatusDone(t, resp) ==
    /\ resp \in Answers(t)
    /\ tasks[t].pc = "status" /\ tasks[t].op # "save"
    /\ LET r == getActiveTimeEntry(resp) IN
        /\ activeTimeEntry' = StatusEntry(r)
        /\ statusBar' = IF r.ok THEN renderStatusBar(activeTimeEntry')
                        ELSE FailureText(r.status)
        /\ tasks' = IF r.ok THEN Applied(t, Returned) ELSE Resumed(t, Returned)
        /\ ev' = Ev("UpdateStatusDone", tasks[t].op, t, resp,
                    StatusSaid(tasks[t].op, r), TRUE)
                 @@ [entry |-> tasks[t].entry]
    /\ UNCHANGED <<settings, currentUser, srvActive, srvNextId, srvMembers,
                   nOps>>
    /\ UNCHANGED <<api, cacheVars, timerVars>>

\* A resolution that trusts the member id cached in the settings.
ResolveMemberIdCached(members, userId) == settings.selectedMemberId

\* correctMemberId: the id of the first member whose user_id is the current
\* user's, NoStr when there is none.
ResolveMemberId(members, userId) ==
    IF FindMember(members, userId) = 0 THEN NoStr
    ELSE members[FindMember(members, userId)].id

\* stopCurrentTimer from its check of the cached entry on (line 538): the
\* request it awaits next, or Returned.
StopFromCheck ==
    IF activeTimeEntry = Null THEN Returned
    ELSE IF activeTimeEntry.organization_id = NoStr
              \/ activeTimeEntry.start = NoStr
    THEN updateStatus("stopcheck")
    ELSE Await("stop", "members", activeTimeEntry, NoUpd,
               activeTimeEntry.organization_id, NoBody)

\* The notice stopCurrentTimer shows at that check.
StopCheckSaid ==
    IF activeTimeEntry = Null THEN <<"no-timer">>
    ELSE IF activeTimeEntry.organization_id = NoStr
              \/ activeTimeEntry.start = NoStr
    THEN <<"incomplete">>
    ELSE <<>>

stopCurrentTimer ==
    /\ CanInvoke
    /\ nOps' = nOps + 1
    /\ tasks' = Invoked(IF api = Null THEN Returned
                        ELSE IF currentUser = NoStr
                        THEN Await("stop", "me", Null, NoUpd, NoStr, NoBody)
                        ELSE StopFromCheck)
    /\ ev' = Ev("stopCurrentTimer", "stop", 0, NoResp,
                IF api = Null THEN <<"api-not-configured">>
                ELSE IF currentUser = NoStr THEN <<>> ELSE StopCheckSaid,
                FALSE)
    /\ UNCHANGED <<settings, currentUser, activeTimeEntry, statusBar,
                   srvActive, srvNextId, srvMembers>>
    /\ UNCHANGED <<api, cacheVars, timerVars>>

StopAfterMe(t, resp) ==
    /\ resp \in Answers(t)
    /\ tasks[t].op = "stop" /\ tasks[t].pc = "me"
    /\ LET r == getMe(resp) IN
        /\ currentUser' = IF r.ok THEN r.val.id ELSE currentUser
        /\ tasks' = Resumed(t, IF r.ok THEN StopFromCheck ELSE Returned)
        /\ ev' = Ev("StopAfterMe", tasks[t].op, t, resp,
                    IF r.ok THEN StopCheckSaid ELSE <<"no-user">>, FALSE)
    /\ UNCHANGED <<settings, activeTimeEntry, statusBar, srvActive, srvNextId,
                   srvMembers, nOps>>
    /\ UNCHANGED <<api, cacheVars, timerVars>>

\* A stop that leaves the cached entry until its PUT has been answered.
StopOptimisticKept(old) == old

\* The cached entry once stop has its member id: cleared before the PUT.
StopOptimistic(old) == Null

\* stop resumes with the members: no member of the user's, and it returns;
\* else it clears the cached entry and issues the PUT.
StopAfterMembers(t, resp) ==
    /\ resp \in Answers(t)
    /\ tasks[t].op = "stop" /\ tasks[t].pc = "members"
    /\ LET correctMemberId ==
               ResolveMemberId(getMembers(resp), currentUser) IN
        IF correctMemberId = NoStr
        THEN /\ tasks' = Resumed(t, Returned)
             /\ ev' = Ev("StopAfterMembers", tasks[t].op, t, resp,
                         <<"user-not-in-org", "no-member-id">>, FALSE)
             /\ UNCHANGED <<activeTimeEntry, statusBar>>
        ELSE /\ activeTimeEntry' = StopOptimistic(activeTimeEntry)
             /\ statusBar' = renderStatusBar(activeTimeEntry')
             /\ tasks' = Resumed(t,
                    Await("stop", "put", tasks[t].entry, NoUpd, tasks[t].org,
                          StopPayload(correctMemberId, tasks[t].entry)))
             /\ ev' = Ev("StopAfterMembers", tasks[t].op, t, resp,
                         <<"stopping">>, TRUE)
    /\ UNCHANGED <<settings, currentUser, srvActive, srvNextId, srvMembers,
                   nOps>>
    /\ UNCHANGED <<api, cacheVars, timerVars>>

\* A stop that puts the entry back when its PUT fails, without a refetch.
StopAfterPutRestoring(t, resp) ==
    /\ resp \in Answers(t)
    /\ tasks[t].op = "stop" /\ tasks[t].pc = "put"
    /\ activeTimeEntry' = IF stopTimeEntry(resp).ok THEN activeTimeEntry
                          ELSE tasks[t].entry
    /\ tasks' = Resumed(t, Returned)
    /\ ev' = Ev("StopAfterPut", tasks[t].op, t, resp, <<>>, FALSE)
    /\ UNCHANGED <<settings, currentUser, statusBar, srvActive, srvNextId,
                   srvMembers, nOps>>
    /\ UNCHANGED <<api, cacheVars, timerVars>>

\* stop resumes with the answer of its PUT: done, or the status refetch.
StopAfterPut(t, resp) ==
    /\ resp \in Answers(t)
    /\ tasks[t].op = "stop" /\ tasks[t].pc = "put"
    /\ tasks' = Resumed(t, IF stopTimeEntry(resp).ok THEN Returned
                           ELSE Refetch("stop", tasks[t]))
    /\ activeTimeEntry' = IF stopTimeEntry(resp).ok THEN activeTimeEntry
                          ELSE StatusRefused(activeTimeEntry)
    /\ ev' = Ev("StopAfterPut", tasks[t].op, t, resp,
                IF stopTimeEntry(resp).ok THEN <<"stopped">> ELSE <<>>, FALSE)
    /\ UNCHANGED <<settings, currentUser, statusBar,
                   srvActive, srvNextId, srvMembers, nOps>>
    /\ UNCHANGED <<api, cacheVars, timerVars>>

\* updateActiveTimerDetails from its check of the cached entry on (line 331).
UpdateFromCheck(updates) ==
    IF activeTimeEntry = Null THEN Returned
    ELSE IF activeTimeEntry.organization_id = NoStr
              \/ activeTimeEntry.start = NoStr
    THEN Returned
    ELSE Await("update", "members", activeTimeEntry, updates,
               activeTimeEntry.organization_id, NoBody)

\* The notice updateActiveTimerDetails shows at that check.
UpdateCheckSaid ==
    IF activeTimeEntry = Null THEN <<"no-timer">>
    ELSE IF activeTimeEntry.organization_id = NoStr
              \/ activeTimeEntry.start = NoStr
    THEN <<"incomplete">>
    ELSE <<>>

updateActiveTimerDetails(updates) ==
    /\ CanInvoke
    /\ nOps' = nOps + 1
    /\ tasks' = Invoked(IF api = Null THEN Returned
                        ELSE IF currentUser = NoStr
                        THEN Await("update", "me", Null, updates, NoStr, NoBody)
                        ELSE UpdateFromCheck(updates))
    /\ ev' = Ev("updateActiveTimerDetails", "update", 0, NoResp,
                IF api = Null THEN <<"api-not-configured">>
                ELSE IF currentUser = NoStr THEN <<>> ELSE UpdateCheckSaid,
                FALSE)
    /\ UNCHANGED <<settings, currentUser, activeTimeEntry, statusBar,
                   srvActive, srvNextId, srvMembers>>
    /\ UNCHANGED <<api, cacheVars, timerVars>>

UpdateAfterMe(t, resp) ==
    /\ resp \in Answers(t)
    /\ tasks[t].op = "update" /\ tasks[t].pc = "me"
    /\ LET r == getMe(resp) IN
        /\ currentUser' = IF r.ok THEN r.val.id ELSE currentUser
        /\ tasks' = Resumed(t, IF r.ok THEN UpdateFromCheck(tasks[t].upd)
                               ELSE Returned)
        /\ ev' = Ev("UpdateAfterMe", tasks[t].op, t, resp,
                    IF r.ok THEN UpdateCheckSaid ELSE <<"no-user">>, FALSE)
    /\ UNCHANGED <<settings, activeTimeEntry, statusBar, srvActive, srvNextId,
                   srvMembers, nOps>>
    /\ UNCHANGED <<api, cacheVars, timerVars>>

\* update resumes with the members: no member of the user's, and it
\* returns; else it issues the PUT of the merged payload.
UpdateAfterMembers(t, resp) ==
    /\ resp \in Answers(t)
    /\ tasks[t].op = "update" /\ tasks[t].pc = "members"
    /\ LET correctMemberId ==
               ResolveMemberId(getMembers(resp), currentUser) IN
        /\ tasks' = Resumed(t,
              IF correctMemberId = NoStr THEN Returned
              ELSE Await("update", "put", tasks[t].entry, tasks[t].upd,
                         tasks[t].org,
                         UpdatePayload(correctMemberId, tasks[t].entry,
                                       tasks[t].upd)))
        /\ ev' = Ev("UpdateAfterMembers", tasks[t].op, t, resp,
                    IF correctMemberId = NoStr THEN <<"user-not-in-org">>
                    ELSE <<"updating">>, FALSE)
    /\ UNCHANGED <<settings, currentUser, activeTimeEntry, statusBar,
                   srvActive, srvNextId, srvMembers, nOps>>
    /\ UNCHANGED <<api, cacheVars, timerVars>>

\* An update that caches its own merge of the entry and the changes.
UpdatedEntryMerged(r, k) ==
    Entry(k.entry.id, k.entry.organization_id, k.entry.end, k.body.billable,
          k.body.description, k.body.project_id, k.body.task_id, k.body.tags)

\* The entry a successful update caches: updatedEntry, the server's.
UpdatedEntry(r, k) == r.val

\* update resumes with the answer of its PUT: the server's entry replaces
\* the cached one and is shown, or a notice and the status refetch.
UpdateAfterPut(t, resp) ==
    /\ resp \in Answers(t)
    /\ tasks[t].op = "update" /\ tasks[t].pc = "put"
    /\ LET r == stopTimeEntry(resp) IN
        /\ activeTimeEntry' = IF r.ok THEN UpdatedEntry(r, tasks[t])
                              ELSE StatusRefused(activeTimeEntry)
        /\ statusBar' = IF r.ok THEN renderStatusBar(activeTimeEntry')
                        ELSE statusBar
        /\ tasks' = IF r.ok THEN Applied(t, Returned)
                    ELSE Resumed(t, Refetch("update", tasks[t]))
        /\ ev' = Ev("UpdateAfterPut", tasks[t].op, t, resp,
                    IF r.ok THEN <<"updated">> ELSE <<"update-failed">>, r.ok)
    /\ UNCHANGED <<settings, currentUser, srvActive, srvNextId, srvMembers,
                   nOps>>
    /\ UNCHANGED <<api, cacheVars, timerVars>>

\* ------------------------------------------------ the service at work
\* The service handles the request of task t and answers it.
Serve(t) ==
    /\ Pending(t) /\ tasks[t].pc \in {"status", "post", "put"}
    /\ LET k == tasks[t] IN
        /\ tasks' = [tasks EXCEPT ![t].resp =
              CASE k.pc = "status"  -> SrvGetActive
                [] k.pc = "post"    ->
                     IF SrvPostAccepts(k.org, k.body)
                     THEN [status |-> 201, data |-> SrvCreated(k.org, k.body)]
                     ELSE [status |-> 400]
                [] k.pc = "put"     ->
                     IF SrvPutAccepts(k.org, k.body)
                     THEN [status |-> 200,
                           data |-> SrvPutResult(k.org, k.entry.id, k.body)]
                     ELSE [status |-> 403]]
        /\ srvActive' =
              IF k.pc = "post" /\ SrvPostAccepts(k.org, k.body)
              THEN SrvCreated(k.org, k.body)
              ELSE IF k.pc = "put" /\ SrvPutAccepts(k.org, k.body)
              THEN SrvActiveAfterPut(k.org, k.entry.id, k.body)
              ELSE srvActive
        /\ srvNextId' =
              IF k.pc = "post" /\ SrvPostAccepts(k.org, k.body)
              THEN srvNextId + 1 ELSE srvNextId
    /\ ev' = Ev("Serve", tasks[t].op, t, NoResp, <<>>, FALSE)
    /\ UNCHANGED <<settings, currentUser, activeTimeEntry, statusBar,
                   srvMembers, nOps>>
    /\ UNCHANGED <<api, cacheVars, timerVars>>

\* The request of task t is answered on the way (a proxy, a portal) with a
\* 2xx whose body is no JSON; the service never sees it.
ServeUnparsable(t) ==
    /\ Pending(t) /\ tasks[t].pc \in {"status", "post", "put"}
    /\ tasks' = [tasks EXCEPT ![t].resp = [status |-> 200,
                                           unparsable |-> TRUE]]
    /\ ev' = Ev("Serve", tasks[t].op, t, NoResp, <<>>, FALSE)
    /\ UNCHANGED <<settings, currentUser, activeTimeEntry, statusBar,
                   srvActive, srvNextId, srvMembers, nOps>>
    /\ UNCHANGED <<api, cacheVars, timerVars>>

\* Another client of the same user stops the active entry.
StoppedElsewhere ==
    /\ srvActive # Null
    /\ srvActive' = Null
    /\ ev' = Ev("StoppedElsewhere", "none", 0, NoResp, <<>>, FALSE)
    /\ UNCHANGED <<settings, currentUser, activeTimeEntry, statusBar, tasks,
                   srvNextId, srvMembers, nOps>>
    /\ UNCHANGED <<api, cacheVars, timerVars>>

\* ----------------------------------------------------------- the paginator
\* The safety break of fetchAllPaginated.
Ceiling == 10000

\* The URLs of a paginated endpoint, and how many items a page may hold.
Urls == {"u1", "u2", "u3"}
PageSizes == {0, 3000, 6000}

\* An array of items is written as the sequence of its runs: the run
\* [page |-> u, n |-> n] stands for the n items of page u, in the order of the page.
\* Concatenating arrays concatenates their runs.
Items(u, n) == IF n = 0 THEN <<>> ELSE <<[page |-> u, n |-> n]>>

\* array.length
RECURSIVE Count(_)
Count(items) ==
    IF items = <<>> THEN 0 ELSE Head(items).n + Count(Tail(items))

\* What the service may answer for the page at u: a page of items with a
\* next link (to any page, itself included, or none), a page without links,
\* a body without a data array (with a next link), or no body at all.
PageAnswers(u) ==
    { [status |-> 200,
       body |-> [data |-> Items(u, n), links |-> [next |-> x]]] :
          n \in PageSizes, x \in Urls \cup {NoStr} }
    \cup { [status |-> 200, body |-> [data |-> Items(u, 3000)]] }
    \cup { [status |-> 200, body |-> [links |-> [next |-> x]]] : x \in Urls }
    \cup { [status |-> 204] }

\* SolidTimeApi.request on a raw answer whose whole body the caller reads.
RequestBody(resp, allowedNon2xxStatuses) ==
    IF resp.status = 0
    THEN [ok |-> FALSE, null |-> FALSE, status |-> 0]
    ELSE IF (resp.status >= 200 /\ resp.status < 300)
              \/ resp.status \in allowedNon2xxStatuses
    THEN IF resp.status = 204 \/ resp.status \in allowedNon2xxStatuses
              \/ "body" \notin DOMAIN resp
         THEN [ok |-> TRUE, null |-> TRUE, status |-> resp.status]
         ELSE [ok |-> TRUE, null |-> FALSE, status |-> resp.status,
               body |-> resp.body]
    ELSE [ok |-> FALSE, null |-> FALSE, status |-> resp.status]

\* response && Array.isArray(response.data)
IsPage(response) == ~response.null /\ "data" \in DOMAIN response.body

\* response.links?.next ?? null
NextLink(response) ==
    IF "links" \in DOMAIN response.body THEN response.body.links.next
    ELSE NoStr

\* A concatenation that puts the new page in front.
ConcatFront(allData, pageData) == pageData \o allData

\* allData.concat(response.data)
Concat(allData, pageData) == allData \o pageData

\* A loop that follows the link of a body without a data array as well.
FollowedAnyway(response) ==
    IF ~response.null THEN NextLink(response) ELSE NoStr

\* nextPageUrl after a page: its next link, null when the answer is no page.
Followed(response) ==
    IF IsPage(response) THEN NextLink(response) ELSE NoStr

\* The answers the request of nextPageUrl can get: the page the service
\* holds there, or a failure.
FetchAnswers ==
    IF pager.pc = "loop"
    THEN {pager.pages[pager.nextPageUrl]} \cup {[status |-> f] : f \in {500, 0}}
    ELSE {}

\* One turn of the loop of fetchAllPaginated: the request of nextPageUrl is
\* answered (or fails, and the method throws), the page is appended, the
\* link taken and the safety break tested; the method returns when the
\* loop ends.
FetchPage(resp) ==
    /\ pager.pc = "loop"
    /\ resp \in FetchAnswers
    /\ LET response == RequestBody(resp, {})
           grown == IF response.ok /\ IsPage(response)
                    THEN Concat(pager.allData, response.body.data)
                    ELSE pager.allData
           next == IF response.ok THEN Followed(response) ELSE NoStr
       IN pager' = [pager EXCEPT
                      !.allData = grown,
                      !.nextPageUrl = next,
                      !.pc = IF ~response.ok THEN "threw"
                             ELSE IF Count(grown) > Ceiling \/ next = NoStr
                             THEN "returned" ELSE "loop"]
    /\ ev' = [kind |-> "FetchPage", op |-> "fetch", t |-> 0, n |-> Len(tasks),
              prev |-> activeTimeEntry, resp |-> resp,
              transport |-> RequestNotices(resp, {}), said |-> <<>>,
              view |-> FALSE, before |-> pager]
    /\ UNCHANGED <<settings, currentUser, activeTimeEntry, statusBar, tasks,
                   srvActive, srvNextId, srvMembers, nOps, api, data, modal,
                   srvData, timerVars>>

\* -------------------------------------------------------------- the caches
\* The tag names a user types, and how JavaScript treats them.
TagNames == {"Art", "Focus", "focus"}

toLowerCase(name) ==
    IF name = "Focus" THEN "focus" ELSE IF name = "Art" THEN "art" ELSE name

\* a.localeCompare(b) < 0, = 0, > 0: the order Art, focus, Focus.
localeCompare(a, b) ==
    LET rank == [Art |-> 1, focus |-> 2, Focus |-> 3] IN rank[a] - rank[b]

\* array.sort((a, b) => a.name.localeCompare(b.name)): a stable sort.
RECURSIVE SortByName(_)
SortByName(list) ==
    IF list = <<>> THEN <<>>
    ELSE LET last == list[Len(list)]
             rest == SortByName(SubSeq(list, 1, Len(list) - 1))
             k == Cardinality({i \in DOMAIN rest :
                                 localeCompare(rest[i].name, last.name) <= 0})
         IN SubSeq(rest, 1, k) \o <<last>> \o SubSeq(rest, k + 1, Len(rest))

\* this.tags.push(newTag); this.tags.sort(...)
Pushed(list, newTag) == SortByName(Append(list, newTag))

\* this.projects = []; this.tasks = []; this.tags = [];
NoData == [projects |-> <<>>, tasks |-> <<>>, tags |-> <<>>]

\* The ids the service gives the tags it creates, in order.
TagIds == <<"t1", "t2", "t3", "t4", "t5", "t6">>

\* The tag POST .../tags creates.
SrvTagCreated(name) ==
    [id |-> TagIds[Len(srvData.tags) + 1], name |-> name]

\* getProjects and getTasks: the list fetchAllPaginated returns, or it throws.
getProjects(resp) ==
    LET r == Request(resp, {}) IN
    IF ~r.ok THEN Threw(r)
    ELSE [ok |-> TRUE, val |-> IF r.null THEN <<>> ELSE r.data]

getTasks(resp) ==
    LET r == Request(resp, {}) IN
    IF ~r.ok THEN Threw(r)
    ELSE [ok |-> TRUE, val |-> IF r.null THEN <<>> ELSE r.data]

\* getTags never throws: an empty list on any failure.
getTags(resp) ==
    LET r == Request(resp, {}) IN
    [ok |-> TRUE, val |-> IF ~r.ok \/ r.null THEN <<>> ELSE r.data]

\* SolidTimeApi.createTag on the raw answer of its POST.
createTag(resp) ==
    LET r == Request(resp, {}) IN
    IF ~r.ok THEN Threw(r)
    ELSE IF r.null THEN [ok |-> FALSE, status |-> r.status]
    ELSE [ok |-> TRUE, val |-> r.data]

\* The observation of a step on the caches: as Ev, with the caches before
\* the step and what the step was given (a tag name, the fetches that
\* failed).
EvData(kind, op, t, resp, said, given) ==
    [kind |-> kind, op |-> op, t |-> t, n |-> Len(tasks),
     prev |-> activeTimeEntry, resp |-> resp, transport |-> 0,
     said |-> said, view |-> FALSE, before |-> data, given |-> given]

\* loadSolidTimeData returns at once, the caches emptied.
LoadRefused == api = Null \/ settings.selectedOrganizationId = NoStr

\* loadSolidTimeData up to its await of the three fetches.
loadSolidTimeData(op) ==
    IF LoadRefused THEN Returned
    ELSE Await(op, "data", Null, NoUpd, settings.selectedOrganizationId,
               NoBody)

\* The fetch interval fires.
LoadDataTick ==
    /\ CanInvoke
    /\ \E i \in window.intervals : i.fn = "loadSolidTimeData"
    /\ nOps' = nOps + 1
    /\ tasks' = Invoked(loadSolidTimeData("load"))
    /\ data' = IF LoadRefused THEN NoData ELSE data
    /\ ev' = EvData("loadSolidTimeData", "load", 0, NoResp, <<>>, {})
    /\ UNCHANGED <<settings, currentUser, activeTimeEntry, statusBar,
                   srvActive, srvNextId, srvMembers, api, modal, srvData,
                   pager, timerVars>>

\* The projects, tasks and tags the service holds for the second
\* organization of the settings tab.
SrvListsOther ==
    [projects |-> <<[id |-> "p2", name |-> "Beta"]>>,
     tasks    |-> <<>>,
     tags     |-> <<>>]

\* GET /v1/organizations/{org}/projects, tasks and tags.
SrvDataOf(org) == IF org = "o2" THEN SrvListsOther ELSE srvData

\* The service handles the three GETs of a load.
ServeData(t) ==
    /\ Pending(t) /\ tasks[t].pc = "data"
    /\ tasks' = [tasks EXCEPT ![t].resp = [status |-> 200,
                                           lists |-> SrvDataOf(tasks[t].org)]]
    /\ ev' = EvData("ServeData", tasks[t].op, t, NoResp, <<>>, {})
    /\ UNCHANGED <<settings, currentUser, activeTimeEntry, statusBar,
                   srvActive, srvNextId, srvMembers, nOps, api, cacheVars,
                   timerVars>>

\* The raw answer of one of the three fetches: the list, or a failure.
FetchAnswer(t, what, failed) ==
    IF what \in failed THEN [status |-> 500]
    ELSE [status |-> 200, data |-> tasks[t].resp.lists[what]]

\* What loadSolidTimeData leaves in the caches once Promise.all has settled:
\* the three lists, or nothing when one of the fetches threw.
Loaded(projects, tasks_, tags) ==
    IF projects.ok /\ tasks_.ok /\ tags.ok
    THEN [projects |-> projects.val, tasks |-> tasks_.val, tags |-> tags.val]
    ELSE NoData

\* loadSolidTimeData resumes with the three fetches settled, those of
\* `failed` having failed.
LoadAfterFetch(t, failed) ==
    /\ ~Pending(t) /\ tasks[t].op = "load" /\ tasks[t].pc = "data"
    /\ data' = Loaded(getProjects(FetchAnswer(t, "projects", failed)),
                      getTasks(FetchAnswer(t, "tasks", failed)),
                      getTags(FetchAnswer(t, "tags", failed)))
    /\ tasks' = Resumed(t, Returned)
    /\ ev' = EvData("LoadAfterFetch", tasks[t].op, t, tasks[t].resp, <<>>,
                    failed)
    /\ UNCHANGED <<settings, currentUser, activeTimeEntry, statusBar,
                   srvActive, srvNextId, srvMembers, nOps, api, modal,
                   srvData, pager, timerVars>>

\* The view opens the tag modal on the running entry: a sorted copy of the
\* tag cache.
OpenTagModal ==
    /\ activeTimeEntry # Null /\ modal = Null
    /\ modal' = [availableTags |-> SortByName(data.tags)]
    /\ ev' = EvData("OpenTagModal", "none", 0, NoResp, <<>>, {})
    /\ UNCHANGED <<settings, currentUser, activeTimeEntry, statusBar, tasks,
                   srvActive, srvNextId, srvMembers, nOps, api, data,
                   srvData, pager, timerVars>>

\* The modal is closed, no creation of its own pending.
CloseTagModal ==
    /\ modal # Null
    /\ \A t \in DOMAIN tasks : tasks[t].op # "createTag"
    /\ modal' = Null
    /\ ev' = EvData("CloseTagModal", "none", 0, NoResp, <<>>, {})
    /\ UNCHANGED <<settings, currentUser, activeTimeEntry, statusBar, tasks,
                   srvActive, srvNextId, srvMembers, nOps, api, data,
                   srvData, pager, timerVars>>

\* The modal's check: the name is one of its availableTags, whatever the case.
NameTaken(name) ==
    \E i \in DOMAIN modal.availableTags :
        toLowerCase(modal.availableTags[i].name) = toLowerCase(name)

\* The Create button of the modal: the checks of the click handler, then
\* plugin.createTag up to its await of the POST.
ModalCreate(name) ==
    /\ modal # Null /\ CanInvoke
    /\ nOps' = nOps + 1
    /\ LET refused == name = NoStr \/ NameTaken(name)
                          \/ ~checkSettingsAndApi IN
        /\ tasks' = Invoked(IF refused THEN Returned
                            ELSE Await("createTag", "tagpost", Null, NoUpd,
                                       settings.selectedOrganizationId,
                                       [name |-> name]))
        /\ ev' = EvData("ModalCreate", "createTag", 0, NoResp,
                        IF name = NoStr THEN <<"enter-name">>
                        ELSE IF NameTaken(name) THEN <<"exists">>
                        ELSE IF ~checkSettingsAndApi THEN <<"configure">>
                        ELSE <<>>, name)
    /\ api' = IF name = NoStr \/ NameTaken(name) THEN api ELSE ApiChecked
    /\ UNCHANGED <<settings, currentUser, activeTimeEntry, statusBar,
                   srvActive, srvNextId, srvMembers, cacheVars, timerVars>>

\* The service handles the POST of a tag: it creates the tag.
ServeTag(t) ==
    /\ Pending(t) /\ tasks[t].pc = "tagpost"
    /\ tasks' = [tasks EXCEPT ![t].resp =
                    [status |-> 201, data |-> SrvTagCreated(tasks[t].body.name)]]
    /\ srvData' = [srvData EXCEPT
                     !.tags = Append(@, SrvTagCreated(tasks[t].body.name))]
    /\ ev' = EvData("ServeTag", tasks[t].op, t, NoResp, <<>>, {})
    /\ UNCHANGED <<settings, currentUser, activeTimeEntry, statusBar,
                   srvActive, srvNextId, srvMembers, nOps, api, data, modal,
                   pager, timerVars>>

\* plugin.createTag resumes with the answer of its POST: the new tag is
\* pushed into the cache and the cache sorted, and the click handler does
\* the same to the modal's list; nothing on a failure.
CreateTagAfterPost(t, resp) ==
    /\ resp \in Answers(t)
    /\ tasks[t].op = "createTag" /\ tasks[t].pc = "tagpost"
    /\ LET r == createTag(resp) IN
        /\ data' = IF r.ok THEN [data EXCEPT !.tags = Pushed(@, r.val)]
                   ELSE data
        /\ modal' = IF r.ok /\ modal # Null
                    THEN [availableTags |->
                             SortByName(Append(modal.availableTags, r.val))]
                    ELSE modal
        /\ ev' = [EvData("CreateTagAfterPost", tasks[t].op, t, resp,
                         IF r.ok THEN <<"tag-created">> ELSE <<>>,
                         tasks[t].body.name)
                  EXCEPT !.transport = RequestNotices(resp, {})]
    /\ tasks' = Resumed(t, Returned)
    /\ UNCHANGED <<settings, currentUser, activeTimeEntry, statusBar,
                   srvActive, srvNextId, srvMembers, nOps, api, srvData,
                   pager, timerVars>>

\* ------------------------------------------------------------ the settings
\* The two interval handles and the timers the window has armed.
Timers == [sid |-> statusIntervalId, fid |-> fetchIntervalId, win |-> window]

\* A clearTimers that clears nothing.
NotCleared(T) == T

\* clearTimers: window.clearInterval on each handle the plugin holds, and
\* the handle forgotten (0 is no handle).
clearTimers(T) ==
    [sid |-> 0, fid |-> 0,
     win |-> [T.win EXCEPT !.intervals =
                 {i \in @ : i.id \notin ({T.sid, T.fid} \ {0})}]]

\* window.setInterval(fn, ...): a new timer, its handle.
setInterval(win, fn) ==
    [intervals |-> win.intervals \cup {[id |-> win.next, fn |-> fn]},
     next |-> win.next + 1]

\* A status interval that a value of 0 arms too.
StatusEnabledAtZero(seconds) == seconds >= 0

\* statusBarUpdateIntervalSeconds > 0
StatusEnabled(seconds) == seconds > 0

\* autoFetchIntervalMinutes > 0
FetchEnabled(minutes) == minutes > 0

\* setupIntervals, the API client being a: the old timers cleared, then each
\* interval armed when its value and the configuration allow it.
setupIntervals(T, a) ==
    LET c == clearTimers(T)
        s == IF StatusEnabled(settings.statusBarUpdateIntervalSeconds)
                  /\ a # Null
             THEN [c EXCEPT !.sid = c.win.next,
                            !.win = setInterval(c.win, "updateStatus")]
             ELSE c
    IN IF FetchEnabled(settings.autoFetchIntervalMinutes) /\ a # Null
            /\ settings.selectedOrganizationId # NoStr
       THEN [s EXCEPT !.fid = s.win.next,
                      !.win = setInterval(s.win, "loadSolidTimeData")]
       ELSE s

\* A settings handler can be invoked with one more invocation and one more
\* operation in flight than CanInvoke allows.
CanOverlap == nOps < MaxOps + 1 /\ Len(tasks) < MaxTasks + 1

\* saveSettings up to its await of saveData; `tail` is what the handler
\* does once saveSettings has returned.
saveSettings(tail) ==
    Await("save", "saveData", Null, NoUpd, NoStr, [tail |-> tail])

\* The observation of a step of the settings: as Ev, with whether the step
\* ended with the intervals set up.
EvSave(kind, t, resp, said, view, armed) ==
    [kind |-> kind, op |-> "save", t |-> t, n |-> Len(tasks),
     prev |-> activeTimeEntry, resp |-> resp,
     transport |-> IF t = 0 \/ resp = NoResp THEN 0
                   ELSE RequestNotices(resp, AllowedOf(tasks[t].pc)),
     said |-> said, view |-> view, armed |-> armed]

\* A handler of the settings tab has changed the settings to st and calls
\* saveSettings.
Changed(kind, st, tail, said) ==
    /\ st # settings
    /\ settings' = st
    /\ nOps' = nOps + 1
    /\ tasks' = Append(tasks, saveSettings(tail))
    /\ ev' = EvSave(kind, 0, NoResp, said, FALSE, FALSE)
    /\ UNCHANGED <<currentUser, activeTimeEntry, statusBar, srvActive,
                   srvNextId, srvMembers, api, cacheVars, timerVars>>

\* The API key field: the key typed or erased (the handler's refresh of the
\* tab's organization list touches nothing of the plugin).
ChangeApiKey(value) ==
    Changed("ChangeApiKey", [settings EXCEPT !.apiKey = value], "none", <<>>)

\* The base URL field.
ChangeApiBaseUrl(value) ==
    Changed("ChangeApiBaseUrl", [settings EXCEPT !.apiBaseUrl = value],
            "none", <<>>)

\* The organization dropdown: the organization, and the member id of the
\* tab's membership for it, if the tab has one; then saveSettings and a
\* load that is not awaited.
ChangeOrganization(value, found) ==
    LET member == IF found /\ value # NoStr THEN "m1" ELSE NoStr IN
    Changed("ChangeOrganization",
            [settings EXCEPT !.selectedOrganizationId = value,
                             !.selectedMemberId = member],
            "load",
            IF member = NoStr /\ value # NoStr
            THEN <<"member-not-found">> ELSE <<>>)

\* The two interval fields: a number of 0 or more, then saveSettings and
\* setupIntervals.
ChangeStatusInterval(value) ==
    Changed("ChangeStatusInterval",
            [settings EXCEPT !.statusBarUpdateIntervalSeconds = value],
            "intervals", <<>>)

ChangeFetchInterval(value) ==
    Changed("ChangeFetchInterval",
            [settings EXCEPT !.autoFetchIntervalMinutes = value],
            "intervals", <<>>)

\* saveSettings has returned in the handler of task t, the plugin's fields
\* being as given: the handler's tail runs (setupIntervals, or a load that
\* is not awaited) and the task ends.
SaveReturned(t, a, user, T, entry, bar, d) ==
    LET tail == tasks[t].body.tail
        T2 == IF tail = "intervals" THEN setupIntervals(T, a) ELSE T
        refused == a = Null \/ settings.selectedOrganizationId = NoStr
    IN /\ api' = a
       /\ currentUser' = user
       /\ statusIntervalId' = T2.sid
       /\ fetchIntervalId' = T2.fid
       /\ window' = T2.win
       /\ activeTimeEntry' = entry
       /\ statusBar' = bar
       /\ data' = IF tail = "load" /\ refused THEN NoData ELSE d
       /\ tasks' = Resumed(t, IF tail = "load" /\ ~refused
                              THEN Await("load", "data", Null, NoUpd,
                                         settings.selectedOrganizationId,
                                         NoBody)
                              ELSE Returned)

\* saveSettings from its check of the configuration on (line 231), the
\* client being a and the user as given: the await of loadSolidTimeData,
\* or the invalidation: timers cleared, no entry, no data, the view told.
SaveFromCheck(kind, t, resp, a, user, said) ==
    IF a # Null /\ settings.selectedOrganizationId # NoStr
    THEN /\ api' = a
         /\ currentUser' = user
         /\ tasks' = Resumed(t, [tasks[t] EXCEPT
                                   !.pc = "data",
                                   !.org = settings.selectedOrganizationId,
                                   !.resp = NoResp])
         /\ ev' = EvSave(kind, t, resp, said, FALSE, FALSE)
         /\ UNCHANGED <<activeTimeEntry, statusBar, data, timerVars>>
    ELSE /\ SaveReturned(t, a, user, clearTimers(Timers), Null,
                         "CheckSettings", NoData)
         /\ ev' = EvSave(kind, t, resp, said, TRUE,
                         tasks[t].body.tail = "intervals")

\* saveSettings resumes once saveData has written the settings: setupApi,
\* then the user is fetched when the client is new or the user unknown.
SaveAfterData(t) ==
    /\ tasks[t].op = "save" /\ tasks[t].pc = "saveData"
    /\ IF setupApi # Null /\ (api = Null \/ currentUser = NoStr)
       THEN /\ api' = setupApi
            /\ tasks' = Resumed(t, [tasks[t] EXCEPT !.pc = "me"])
            /\ ev' = EvSave("SaveAfterData", t, NoResp, <<>>, FALSE, FALSE)
            /\ UNCHANGED <<currentUser, activeTimeEntry, statusBar, data,
                           timerVars>>
       ELSE SaveFromCheck("SaveAfterData", t, NoResp, setupApi,
                          IF setupApi = Null THEN NoStr ELSE currentUser,
                          <<>>)
    /\ UNCHANGED <<settings, srvActive, srvNextId, srvMembers, nOps, modal,
                   srvData, pager>>

\* saveSettings resumes with the answer of getMe.
SaveAfterMe(t, resp) ==
    /\ resp \in Answers(t)
    /\ tasks[t].op = "save" /\ tasks[t].pc = "me"
    /\ LET r == getMe(resp) IN
        SaveFromCheck("SaveAfterMe", t, resp, api,
                      IF r.ok THEN r.val.id ELSE NoStr,
                      IF r.ok THEN <<>> ELSE <<"could-not-verify">>)
    /\ UNCHANGED <<settings, srvActive, srvNextId, srvMembers, nOps, modal,
                   srvData, pager>>

\* saveSettings resumes with the three fetches of its loadSolidTimeData
\* settled and calls updateStatus: the request, or without a client the
\* cached entry is cleared, the intervals are set up and the handler ends.
SaveAfterLoad(t, failed) ==
    /\ ~Pending(t) /\ tasks[t].op = "save" /\ tasks[t].pc = "data"
    /\ LET loaded == Loaded(getProjects(FetchAnswer(t, "projects", failed)),
                            getTasks(FetchAnswer(t, "tasks", failed)),
                            getTags(FetchAnswer(t, "tags", failed)))
       IN IF api # Null
          THEN /\ data' = loaded
               /\ tasks' = Resumed(t, [tasks[t] EXCEPT !.pc = "status",
                                                       !.resp = NoResp])
               /\ ev' = EvSave("SaveAfterLoad", t, NoResp, <<>>, FALSE, FALSE)
               /\ UNCHANGED <<api, currentUser, activeTimeEntry, statusBar,
                              timerVars>>
          ELSE /\ SaveReturned(t, api, currentUser,
                               setupIntervals(Timers, api),
                               StatusRefused(activeTimeEntry), statusBar,
                               loaded)
               /\ ev' = EvSave("SaveAfterLoad", t, NoResp, <<>>, FALSE, TRUE)
    /\ UNCHANGED <<settings, srvActive, srvNextId, srvMembers, nOps, modal,
                   srvData, pager>>

\* saveSettings resumes with the answer of its updateStatus, sets up the
\* intervals and returns to the handler.
SaveAfterStatus(t, resp) ==
    /\ resp \in Answers(t)
    /\ tasks[t].op = "save" /\ tasks[t].pc = "status"
    /\ LET r == getActiveTimeEntry(resp) IN
        /\ SaveReturned(t, api, currentUser, setupIntervals(Timers, api),
                        StatusEntry(r),
                        IF r.ok THEN renderStatusBar(StatusEntry(r))
                        ELSE FailureText(r.status),
                        data)
        /\ ev' = EvSave("SaveAfterStatus", t, resp, StatusSaid("save", r),
                        TRUE, TRUE)
    /\ UNCHANGED <<settings, srvActive, srvNextId, srvMembers, nOps, modal,
                   srvData, pager>>

\* ---------------------------------------------------------- behaviours
Member(id, user) == [id |-> id, user_id |-> user]

\* The members of the organizations: the user is the second member of
\* o1, the only member of o2 and no member of o3.
MemberLists ==
    [o1 |-> <<Member("m0", "u2"), Member("m1", Me)>>,
     o2 |-> <<Member("m2", Me)>>,
     o3 |-> <<Member("m3", "u2")>>]

\* The settings the plugin was loaded with: an organization selected at
\* configuration time, with its member id cached or not.
LoadedSettings ==
    { [apiKey |-> "key", apiBaseUrl |-> "url",
       selectedOrganizationId |-> "o1", selectedMemberId |-> m,
       statusBarUpdateIntervalSeconds |-> 30,
       autoFetchIntervalMinutes |-> 15] : m \in {"m1", NoStr} }

\* What the service holds once the plugin has loaded: no active entry, or
\* one started from another client.
InitialActive ==
    { Null,
      Entry(1, "o1", NoStr, FALSE, "a", "p1", NoStr, <<>>),
      Entry(1, "o2", NoStr, FALSE, "a", NoStr, NoStr, <<"t1">>),
      Entry(1, "o3", NoStr, TRUE, "b", NoStr, NoStr, <<>>) }

\* The projects, tasks and tags the service holds for the organization.
SrvLists ==
    [projects |-> <<[id |-> "p1", name |-> "Alpha"]>>,
     tasks    |-> <<[id |-> "k1", name |-> "Draft", project_id |-> "p1"]>>,
     tags     |-> <<[id |-> "t1", name |-> "Focus"]>>]

\* No run of fetchAllPaginated.
NoPager == [pc |-> "idle", nextPageUrl |-> NoStr, allData |-> <<>>,
            pages |-> <<>>]

\* What onload leaves beside the timer session, fully configured: the API
\* client, the lists loadSolidTimeData fetched, both intervals armed by
\* setupIntervals, no modal open.
InitLoaded ==
    /\ api = [apiKey |-> settings.apiKey, baseUrl |-> settings.apiBaseUrl]
    /\ srvData = SrvLists
    /\ data = srvData
    /\ statusIntervalId = 1
    /\ fetchIntervalId = 2
    /\ window = [intervals |-> {[id |-> 1, fn |-> "updateStatus"],
                                 [id |-> 2, fn |-> "loadSolidTimeData"]},
                 next |-> 3]
    /\ modal = Null
    /\ pager = NoPager

\* The plugin once onload has run: the user fetched or not, the cached
\* entry and the status bar as onload's updateStatus left them (the
\* service's entry, or none when the entry was started since), nothing in
\* flight.
Init ==
    /\ settings \in LoadedSettings
    /\ InitLoaded
    /\ currentUser \in {NoStr, Me}
    /\ srvActive \in InitialActive
    /\ activeTimeEntry \in {Null, srvActive}
    /\ statusBar = renderStatusBar(activeTimeEntry)
    /\ tasks = <<>>
    /\ srvNextId = 2
    /\ srvMembers = MemberLists
    /\ nOps = 0
    /\ ev = [kind |-> "init", op |-> "none", t |-> 0, n |-> 0, prev |-> Null,
             resp |-> NoResp, transport |-> 0, said |-> <<>>, view |-> FALSE]

\* The plugin is the service's only client.
NextAlone ==
    \/ \E o \in StartOptions : startTimer(o)
    \/ stopCurrentTimer
    \/ \E u \in UpdateInputs : updateActiveTimerDetails(u)
    \/ UpdateStatusTick
    \/ \E t \in DOMAIN tasks : \E resp \in Answers(t) : StartAfterPost(t, resp)
    \/ \E t \in DOMAIN tasks : \E resp \in Answers(t) : StopAfterMe(t, resp)
    \/ \E t \in DOMAIN tasks : \E resp \in Answers(t) : StopAfterMembers(t, resp)
    \/ \E t \in DOMAIN tasks : \E resp \in Answers(t) : StopAfterPut(t, resp)
    \/ \E t \in DOMAIN tasks : \E resp \in Answers(t) : UpdateAfterMe(t, resp)
    \/ \E t \in DOMAIN tasks : \E resp \in Answers(t) : UpdateAfterMembers(t, resp)
    \/ \E t \in DOMAIN tasks : \E resp \in Answers(t) : UpdateAfterPut(t, resp)
    \/ \E t \in DOMAIN tasks : \E resp \in Answers(t) : UpdateStatusDone(t, resp)
    \/ \E t \in DOMAIN tasks : Serve(t)

SpecAlone == Init /\ [][NextAlone]_vars

\* The update operation alone, over more of its inputs.
NextUpdate ==
    \/ \E u \in UpdateInputs \cup MoreUpdateInputs : updateActiveTimerDetails(u)
    \/ \E t \in DOMAIN tasks : \E resp \in Answers(t) : UpdateAfterMe(t, resp)
    \/ \E t \in DOMAIN tasks : \E resp \in Answers(t) : UpdateAfterMembers(t, resp)
    \/ \E t \in DOMAIN tasks : \E resp \in Answers(t) : UpdateAfterPut(t, resp)
    \/ \E t \in DOMAIN tasks : \E resp \in Answers(t) : UpdateStatusDone(t, resp)
    \/ \E t \in DOMAIN tasks : Serve(t)

SpecUpdate == Init /\ [][NextUpdate]_vars

\* fetchAllPaginated called on the first URL of an endpoint, for every way
\* the service may answer each of its pages; the plugin as loaded, idle.
InitPages ==
    /\ settings \in {st \in LoadedSettings : st.selectedMemberId # NoStr}
    /\ api = [apiKey |-> settings.apiKey, baseUrl |-> settings.apiBaseUrl]
    /\ currentUser = Me
    /\ srvActive = Null
    /\ activeTimeEntry = Null
    /\ statusBar = renderStatusBar(activeTimeEntry)
    /\ tasks = <<>>
    /\ srvNextId = 2
    /\ srvMembers = MemberLists
    /\ nOps = 0
    /\ ev = [kind |-> "init", op |-> "none", t |-> 0, n |-> 0, prev |-> Null,
             resp |-> NoResp, transport |-> 0, said |-> <<>>, view |-> FALSE]
    /\ srvData = SrvLists
    /\ data = srvData
    /\ statusIntervalId = 1
    /\ fetchIntervalId = 2
    /\ window = [intervals |-> {[id |-> 1, fn |-> "updateStatus"],
                                 [id |-> 2, fn |-> "loadSolidTimeData"]},
                 next |-> 3]
    /\ modal = Null
    /\ \E a \in PageAnswers("u1"), b \in PageAnswers("u2"),
          c \in PageAnswers("u3") :
            pager = [pc |-> "loop", nextPageUrl |-> "u1", allData |-> <<>>,
                     pages |-> [u1 |-> a, u2 |-> b, u3 |-> c]]

NextPages == \E resp \in FetchAnswers : FetchPage(resp)

SpecPages == InitPages /\ [][NextPages]_vars

\* The loop goes on as long as it can: each request is answered.
SpecPagesLive == SpecPages /\ WF_vars(NextPages)

\* The tags the service may hold, in the order it lists them.
SrvTagLists ==
    { <<[id |-> "t1", name |-> "Focus"]>>,
      <<[id |-> "t1", name |-> "Focus"], [id |-> "t2", name |-> "Art"]>> }

\* The caches at work: a timer is running (the view offers the tag modal),
\* and the caches are as the last load left them: the service's lists, no
\* tags (the tag fetch had failed), or nothing.
InitData ==
    /\ settings \in {st \in LoadedSettings : st.selectedMemberId # NoStr}
    /\ api = [apiKey |-> settings.apiKey, baseUrl |-> settings.apiBaseUrl]
    /\ currentUser = Me
    /\ srvActive = Entry(1, "o1", NoStr, FALSE, "a", "p1", NoStr, <<>>)
    /\ activeTimeEntry = srvActive
    /\ statusBar = renderStatusBar(activeTimeEntry)
    /\ tasks = <<>>
    /\ srvNextId = 2
    /\ srvMembers = MemberLists
    /\ nOps = 0
    /\ ev = [kind |-> "init", op |-> "none", t |-> 0, n |-> 0, prev |-> Null,
             resp |-> NoResp, transport |-> 0, said |-> <<>>, view |-> FALSE]
    /\ srvData \in {[SrvLists EXCEPT !.tags = l] : l \in SrvTagLists}
    /\ data \in {srvData, [srvData EXCEPT !.tags = <<>>], NoData}
    /\ statusIntervalId = 1
    /\ fetchIntervalId = 2
    /\ window = [intervals |-> {[id |-> 1, fn |-> "updateStatus"],
                                 [id |-> 2, fn |-> "loadSolidTimeData"]},
                 next |-> 3]
    /\ modal = Null
    /\ pager = NoPager

NextData ==
    \/ LoadDataTick
    \/ OpenTagModal
    \/ CloseTagModal
    \/ \E name \in TagNames \cup {NoStr} : ModalCreate(name)
    \/ \E t \in DOMAIN tasks : ServeData(t)
    \/ \E t \in DOMAIN tasks : ServeTag(t)
    \/ \E t \in DOMAIN tasks :
          \E failed \in SUBSET {"projects", "tasks", "tags"} :
              LoadAfterFetch(t, failed)
    \/ \E t \in DOMAIN tasks : \E resp \in Answers(t) :
          CreateTagAfterPost(t, resp)

SpecData == InitData /\ [][NextData]_vars

\* The plugin loaded and fully configured, a timer running or not, and the
\* settings tab open, its list of memberships fetched.
InitConfig ==
    /\ settings \in {st \in LoadedSettings : st.selectedMemberId # NoStr}
    /\ InitLoaded
    /\ currentUser = Me
    /\ srvActive \in {Null, Entry(1, "o1", NoStr, FALSE, "a", "p1", NoStr, <<>>)}
    /\ activeTimeEntry = srvActive
    /\ statusBar = renderStatusBar(activeTimeEntry)
    /\ tasks = <<>>
    /\ srvNextId = 2
    /\ srvMembers = MemberLists
    /\ nOps = 0
    /\ ev = [kind |-> "init", op |-> "none", t |-> 0, n |-> 0, prev |-> Null,
             resp |-> NoResp, transport |-> 0, said |-> <<>>, view |-> FALSE]

NextConfig ==
    \/ CanInvoke /\ \E value \in {"key", "key2", NoStr} : ChangeApiKey(value)
    \/ CanInvoke /\ \E value \in {"url", NoStr} : ChangeApiBaseUrl(value)
    \/ CanInvoke /\ \E value \in {"o1", NoStr} : ChangeOrganization(value, TRUE)
    \/ CanInvoke /\ \E value \in {0, 30} : ChangeStatusInterval(value)
    \/ CanInvoke /\ \E value \in {0, 15} : ChangeFetchInterval(value)
    \/ \E t \in DOMAIN tasks : SaveAfterData(t)
    \/ \E t \in DOMAIN tasks : \E resp \in Answers(t) : SaveAfterMe(t, resp)
    \/ \E t \in DOMAIN tasks :
          \E failed \in SUBSET {"projects", "tasks", "tags"} :
              SaveAfterLoad(t, failed)
    \/ \E t \in DOMAIN tasks : \E resp \in Answers(t) :
          SaveAfterStatus(t, resp)
    \/ UpdateStatusTick
    \/ LoadDataTick
    \/ \E t \in DOMAIN tasks : \E resp \in Answers(t) : UpdateStatusDone(t, resp)
    \/ \E t \in DOMAIN tasks :
          \E failed \in SUBSET {"projects", "tasks", "tags"} :
              LoadAfterFetch(t, failed)
    \/ \E t \in DOMAIN tasks : Serve(t)
    \/ \E t \in DOMAIN tasks : ServeData(t)

SpecConfig == InitConfig /\ [][NextConfig]_vars

\* The same with room for a third invocation and a third operation in flight
\* when it is a change of the settings.
NextOverlap ==
    \/ CanOverlap /\ \E value \in {"key", NoStr} : ChangeApiKey(value)
    \/ CanOverlap /\ \E value \in {"url", NoStr} : ChangeApiBaseUrl(value)
    \/ CanOverlap /\ \E value \in {"o1", NoStr} : ChangeOrganization(value, TRUE)
    \/ CanOverlap /\ \E value \in {0, 30} : ChangeStatusInterval(value)
    \/ CanOverlap /\ \E value \in {0, 15} : ChangeFetchInterval(value)
    \/ \E t \in DOMAIN tasks : SaveAfterData(t)
    \/ \E t \in DOMAIN tasks : \E resp \in Answers(t) : SaveAfterMe(t, resp)
    \/ \E t \in DOMAIN tasks :
          \E failed \in SUBSET {"projects", "tasks", "tags"} :
              SaveAfterLoad(t, failed)
    \/ \E t \in DOMAIN tasks : \E resp \in Answers(t) :
          SaveAfterStatus(t, resp)
    \/ UpdateStatusTick
    \/ LoadDataTick
    \/ \E t \in DOMAIN tasks : \E resp \in Answers(t) : UpdateStatusDone(t, resp)
    \/ \E t \in DOMAIN tasks :
          \E failed \in SUBSET {"projects", "tasks", "tags"} :
              LoadAfterFetch(t, failed)
    \/ \E t \in DOMAIN tasks : Serve(t)
    \/ \E t \in DOMAIN tasks : ServeData(t)

SpecOverlap == InitConfig /\ [][NextOverlap]_vars

\* The organization dropdown with two organizations to choose from, the
\* timers running.
NextOrgs ==
    \/ CanInvoke /\ \E value \in {"o1", "o2", NoStr} :
          ChangeOrganization(value, TRUE)
    \/ \E t \in DOMAIN tasks : SaveAfterData(t)
    \/ \E t \in DOMAIN tasks :
          \E failed \in SUBSET {"projects", "tasks", "tags"} :
              SaveAfterLoad(t, failed)
    \/ \E t \in DOMAIN tasks : \E resp \in Answers(t) :
          SaveAfterStatus(t, resp)
    \/ UpdateStatusTick
    \/ LoadDataTick
    \/ \E t \in DOMAIN tasks : \E resp \in Answers(t) : UpdateStatusDone(t, resp)
    \/ \E t \in DOMAIN tasks :
          \E failed \in SUBSET {"projects", "tasks", "tags"} :
              LoadAfterFetch(t, failed)
    \/ \E t \in DOMAIN tasks : Serve(t)
    \/ \E t \in DOMAIN tasks : ServeData(t)

SpecOrgs == InitConfig /\ [][NextOrgs]_vars

\* Another client may stop the timer at any time.
Next == NextAlone \/ StoppedElsewhere

Spec == Init /\ [][Next]_vars

\* The same, with answers that are no JSON.
NextTransport == Next \/ \E t \in DOMAIN tasks : ServeUnparsable(t)

SpecTransport == Init /\ [][NextTransport]_vars

\* The status interval fires, as often as the window calls it: the
\* callback of setInterval is not an invocation of the user's.
StatusTimerFires ==
    /\ Len(tasks) < MaxTasks
    /\ \E i \in window.intervals : i.fn = "updateStatus"
    /\ tasks' = Invoked(updateStatus("refresh"))
    /\ activeTimeEntry' = StatusRefused(activeTimeEntry)
    /\ ev' = Ev("updateStatus", "refresh", 0, NoResp, <<>>, FALSE)
    /\ UNCHANGED <<settings, currentUser, statusBar, srvActive, srvNextId,
                   srvMembers, nOps>>
    /\ UNCHANGED <<api, cacheVars, timerVars>>

\* The request of the task at position i is handled by the service, or its
\* answer (or its failure) is delivered and the operation resumes.
Settles(i) ==
    /\ i \in DOMAIN tasks
    /\ \/ Serve(i)
       \/ \E resp \in Answers(i) :
             \/ StartAfterPost(i, resp)
             \/ StopAfterMe(i, resp)
             \/ StopAfterMembers(i, resp)
             \/ StopAfterPut(i, resp)
             \/ UpdateAfterMe(i, resp)
             \/ UpdateAfterMembers(i, resp)
             \/ UpdateAfterPut(i, resp)
             \/ UpdateStatusDone(i, resp)

\* The plugin with its status timer running for ever, the user's
\* operations and another client's as before.
NextLive ==
    \/ \E o \in StartOptions : startTimer(o)
    \/ stopCurrentTimer
    \/ \E u \in UpdateInputs : updateActiveTimerDetails(u)
    \/ StatusTimerFires
    \/ \E i \in 1..MaxTasks : Settles(i)
    \/ StoppedElsewhere

\* The window keeps calling the interval's callback, the service handles
\* every request and every awaited promise settles.
SpecLive ==
    /\ Init /\ [][NextLive]_vars
    /\ WF_vars(StatusTimerFires)
    /\ \A i \in 1..MaxTasks : WF_vars(Settles(i))

\* The settings a user may have left incomplete: any of the API key, the
\* base URL and the organization missing, the member id missing with the
\* organization or on its own.
SomeSettings ==
    { [apiKey |-> k, apiBaseUrl |-> u, selectedOrganizationId |-> o,
       selectedMemberId |-> m, statusBarUpdateIntervalSeconds |-> 30,
       autoFetchIntervalMinutes |-> 15] :
         k \in {"key", NoStr}, u \in {"url", NoStr},
         o \in {"o1", NoStr}, m \in {"m1", NoStr} }

\* The plugin once onload has run on such settings. Fully configured it is
\* as in Init; else onload has fetched nothing but, with a client, the
\* user: no cached entry, the status bar asks for the settings, no
\* interval is armed.
InitGuard ==
    /\ settings \in {st \in SomeSettings :
                       st.selectedOrganizationId = NoStr
                           => st.selectedMemberId = NoStr}
    /\ api = setupApi
    /\ currentUser \in (IF api = Null THEN {NoStr} ELSE {NoStr, Me})
    /\ srvActive \in InitialActive
    /\ activeTimeEntry \in (IF checkSettingsAndApi THEN {Null, srvActive}
                            ELSE {Null})
    /\ statusBar = IF checkSettingsAndApi
                   THEN renderStatusBar(activeTimeEntry) ELSE "CheckSettings"
    /\ tasks = <<>>
    /\ srvNextId = 2
    /\ srvMembers = MemberLists
    /\ nOps = 0
    /\ ev = [kind |-> "init", op |-> "none", t |-> 0, n |-> 0, prev |-> Null,
             resp |-> NoResp, transport |-> 0, said |-> <<>>, view |-> FALSE]
    /\ srvData = SrvLists
    /\ data = IF checkSettingsAndApi THEN srvData ELSE NoData
    /\ statusIntervalId = IF checkSettingsAndApi THEN 1 ELSE 0
    /\ fetchIntervalId = IF checkSettingsAndApi THEN 2 ELSE 0
    /\ window = IF checkSettingsAndApi
                THEN [intervals |-> {[id |-> 1, fn |-> "updateStatus"],
                                      [id |-> 2, fn |-> "loadSolidTimeData"]},
                      next |-> 3]
                ELSE [intervals |-> {}, next |-> 1]
    /\ modal = Null
    /\ pager = NoPager

SpecGuard == InitGuard /\ [][Next]_vars

\* A cached entry that lacks its organization or its start: an answer of
\* the service that came without the field.
Incompletes(entry) ==
    IF entry = Null THEN {}
    ELSE { [entry EXCEPT !.organization_id = NoStr],
           [entry EXCEPT !.start = NoStr] }

\* The plugin once onload has run, the cached entry lacking a field or not.
InitIncomplete ==
    /\ settings \in LoadedSettings
    /\ InitLoaded
    /\ currentUser \in {NoStr, Me}
    /\ srvActive \in InitialActive
    /\ activeTimeEntry \in {Null, srvActive} \cup Incompletes(srvActive)
    /\ statusBar = renderStatusBar(activeTimeEntry)
    /\ tasks = <<>>
    /\ srvNextId = 2
    /\ srvMembers = MemberLists
    /\ nOps = 0
    /\ ev = [kind |-> "init", op |-> "none", t |-> 0, n |-> 0, prev |-> Null,
             resp |-> NoResp, transport |-> 0, said |-> <<>>, view |-> FALSE]

SpecIncomplete == InitIncomplete /\ [][Next]_vars

\* =================================================================== claims
\* What the claims read off an answer, stated on the raw answer.
Succeeded(resp) == resp.status >= 200 /\ resp.status < 300

\* A refresh's answer is successful: an entry, or the 404 that means none.
RefreshAnswered(resp) == Succeeded(resp) \/ resp.status = 404

\* The active entry an answer of /time-entries/active reports.
Reported(resp) == IF resp.status = 404 THEN Null ELSE resp.data

\* The ids of the members of a list that belong to user u.
IdsOf(list, u) == { list[i].id : i \in { j \in DOMAIN list : list[j].user_id = u } }

\* The answer of a member fetch holds a member of user u.
HasMemberOf(resp, u) == Succeeded(resp) /\ IdsOf(resp.data, u) # {}

\* The newest request in flight is the given request of the given operation.
Issued(op, pc) ==
    /\ Len(tasks) > 0
    /\ tasks[Len(tasks)].op = op /\ tasks[Len(tasks)].pc = pc
    /\ Pending(Len(tasks))

\* C1: with the plugin the service's only client, whenever a refresh has
\* just completed successfully and no request is in flight, the cached
\* entry is the service's active entry.
C1_RefreshedMatchesService ==
    (ev.kind = "UpdateStatusDone" /\ RefreshAnswered(ev.resp) /\ tasks = <<>>)
        => activeTimeEntry = srvActive

\* C2 as claimed: stop invoked while Running, user known and a member of
\* the entry's organization: the cached entry is none as soon as stop has
\* been invoked, before any of its requests has resolved.
C2_StopClearsAtOnce ==
    (/\ ev.kind = "stopCurrentTimer" /\ ev.prev # Null
     /\ currentUser # NoStr
     /\ IdsOf(srvMembers[ev.prev.organization_id], currentUser) # {})
        => activeTimeEntry = Null

\* C2 as amended: stop invoked while Running with the user known leaves the
\* cached entry in place and awaits the member fetch; when that fetch
\* resolves with a member of the user's, the cached entry becomes none in
\* the step that issues the stop PUT, hence before the PUT resolves.
C2_StopClearsBeforePut ==
    /\ (ev.kind = "stopCurrentTimer" /\ ev.prev # Null /\ currentUser # NoStr)
          => activeTimeEntry = ev.prev /\ Issued("stop", "members")
    /\ (ev.kind = "StopAfterMembers" /\ HasMemberOf(ev.resp, currentUser))
          => activeTimeEntry = Null /\ Issued("stop", "put")

C2_Witness ==
    /\ ev.kind = "StopAfterMembers" /\ HasMemberOf(ev.resp, currentUser)
    /\ ev.prev # Null /\ activeTimeEntry = Null /\ Issued("stop", "put")

\* C3: when the stop PUT fails, the cached entry is left as it is (the
\* entry cleared is not put back) and a status refetch is issued; when that
\* refetch succeeds the cached entry is what its answer reports.
C3_FailedStopRefetches ==
    /\ (ev.kind = "StopAfterPut" /\ ~Succeeded(ev.resp))
          => activeTimeEntry = ev.prev /\ Issued("stop", "status")
    /\ (ev.kind = "UpdateStatusDone" /\ ev.op = "stop" /\ RefreshAnswered(ev.resp))
          => activeTimeEntry = Reported(ev.resp)

\* A failed stop whose refetch reports the original entry, still running.
C3_Witness ==
    /\ ev.kind = "UpdateStatusDone" /\ ev.op = "stop"
    /\ ev.prev = Null /\ Succeeded(ev.resp)
    /\ activeTimeEntry = ev.resp.data /\ activeTimeEntry = srvActive

\* C4: at the moment a start, update or stop completes successfully the
\* cached entry is the outcome of that write: the server's entry for start
\* and update, none for stop.
C4_WriteSuccessIsFinal ==
    /\ (ev.kind \in {"StartAfterPost", "UpdateAfterPut"} /\ Succeeded(ev.resp))
          => activeTimeEntry = ev.resp.data
    /\ (ev.kind = "StopAfterPut" /\ Succeeded(ev.resp))
          => activeTimeEntry = Null

\* C5: the successful answer of a refresh, a start or an update whose
\* request was issued before a request whose answer has already been
\* applied is discarded: it never changes the cached entry.
C5_AnswersAppliedInRequestOrder ==
    [][\A t \in DOMAIN tasks :
          (/\ ev'.t = t
           /\ ev'.kind \in {"UpdateStatusDone", "StartAfterPost", "UpdateAfterPut"}
           /\ RefreshAnswered(ev'.resp)
           /\ tasks[t].stale)
             => activeTimeEntry' = activeTimeEntry]_vars

\* C6: whenever a refresh gets a successful answer, the cached entry is set
\* to exactly what the answer reports, whatever it was before.
C6_RefreshSetsReported ==
    (ev.kind = "UpdateStatusDone" /\ RefreshAnswered(ev.resp))
        => activeTimeEntry = Reported(ev.resp)

\* Running to Idle: the timer was stopped without the plugin knowing.
C6_Witness ==
    /\ ev.kind = "UpdateStatusDone" /\ ev.op = "refresh"
    /\ ev.resp.status = 404 /\ ev.prev # Null /\ activeTimeEntry = Null

C8_MemberIdResolved ==
    /\ \A t \in DOMAIN tasks :
          tasks[t].pc = "put" =>
              /\ tasks[t].org = tasks[t].entry.organization_id
              /\ tasks[t].body.member_id
                    \in IdsOf(srvMembers[tasks[t].entry.organization_id], currentUser)
    /\ (/\ ev.kind \in {"StopAfterMembers", "UpdateAfterMembers"}
        /\ ~HasMemberOf(ev.resp, currentUser))
          => Len(tasks) = ev.n - 1 /\ activeTimeEntry = ev.prev

\* A PUT carrying the resolved id of another organization than the selected
\* one, with no member id cached.
C8_Witness ==
    /\ settings.selectedMemberId = NoStr
    /\ \E t \in DOMAIN tasks :
          /\ tasks[t].pc = "put" /\ tasks[t].org = "o2"
          /\ tasks[t].body.member_id = "m2"

\* The user is no member of the entry's organization: the stop ends there.
C8_WitnessNoMember ==
    /\ ev.kind = "StopAfterMembers" /\ Succeeded(ev.resp)
    /\ ~HasMemberOf(ev.resp, currentUser)
    /\ activeTimeEntry # Null /\ tasks = <<>>

\* C9: start invoked with no cached member id, nothing else missing and the
\* user a member of the selected organization: the start goes on to a
\* request (the member fetch) instead of ending without a write.
C9_StartRederivesMember ==
    (/\ ev.kind = "startTimer" /\ ev.prev = Null
     /\ settings.selectedOrganizationId # NoStr
     /\ settings.selectedMemberId = NoStr
     /\ IdsOf(srvMembers[settings.selectedOrganizationId], Me) # {})
        => Len(tasks) = ev.n + 1 /\ tasks[Len(tasks)].op = "start"

\* C10: start invoked while an entry is cached issues no request and leaves
\* the cached entry unchanged.
C10_StartRefusedWhileRunning ==
    (ev.kind = "startTimer" /\ ev.prev # Null)
        => Len(tasks) = ev.n /\ activeTimeEntry = ev.prev

\* Refused for the cached entry alone: everything else is configured.
C10_Witness ==
    /\ ev.kind = "startTimer" /\ ev.prev # Null
    /\ settings.selectedOrganizationId # NoStr
    /\ settings.selectedMemberId # NoStr
    /\ activeTimeEntry = ev.prev

\* A request of the plugin ended in failure: no answer at all, or a status
\* that is neither 2xx nor the 404 allowed to the refresh.
FailedAnswer ==
    /\ ev.t # 0 /\ ev.kind # "Serve"
    /\ ~Succeeded(ev.resp)
    /\ ~(ev.kind = "UpdateStatusDone" /\ ev.resp.status = 404)

\* C11: when the start POST succeeds, the cached entry is exactly the entry
\* of the server's answer, the status bar shows it running and the view is
\* told to update.
C11_StartCachesServerEntry ==
    (ev.kind = "StartAfterPost" /\ Succeeded(ev.resp))
        => /\ activeTimeEntry = ev.resp.data
           /\ statusBar = "Running" /\ ev.view

\* Idle to Running with the entry the service created.
C11_Witness ==
    /\ ev.kind = "StartAfterPost" /\ Succeeded(ev.resp) /\ ev.prev = Null
    /\ activeTimeEntry = srvActive /\ activeTimeEntry.id = 2

\* C12 as claimed: when the start POST fails, the cached entry is none when
\* the start ends, and the start issues no further request.
C12_StartFailureLeavesIdle ==
    (ev.kind = "StartAfterPost" /\ ~Succeeded(ev.resp))
        => activeTimeEntry = Null /\ Len(tasks) = ev.n - 1

\* C12 as amended: when the start POST fails, the start ends (it issues no
\* further request) and leaves the cached entry as it was when the failure
\* arrived.
C12_StartFailureChangesNothing ==
    (ev.kind = "StartAfterPost" /\ ~Succeeded(ev.resp))
        => activeTimeEntry = ev.prev /\ Len(tasks) = ev.n - 1

\* A failed start with nothing else in flight: Idle, and nothing retried.
C12_Witness ==
    /\ ev.kind = "StartAfterPost" /\ ~Succeeded(ev.resp)
    /\ activeTimeEntry = Null /\ tasks = <<>>

\* C13: when an update PUT succeeds, the cached entry is the entry of the
\* server's answer and the view is told to update.
C13_UpdateCachesServerEntry ==
    (ev.kind = "UpdateAfterPut" /\ Succeeded(ev.resp))
        => activeTimeEntry = ev.resp.data /\ ev.view

\* The server's answer differs from a local merge: it reports the entry
\* ended (it was stopped from another client).
C13_Witness ==
    /\ ev.kind = "UpdateAfterPut" /\ Succeeded(ev.resp)
    /\ ev.prev # Null /\ ev.prev.end = NoStr
    /\ activeTimeEntry.end = "T"

\* The key of the updates that changes each field of the payload.
UpdateKeyOf ==
    [billable |-> "billable", project_id |-> "projectId",
     task_id |-> "taskId", description |-> "description", tags |-> "tagIds"]

\* C14: the payload of every update PUT carries, for each of the five
\* fields, the requested value when the update names the field and else
\* the value of the cached entry the update read.
C14_UpdatePayloadMerges ==
    \A t \in DOMAIN tasks :
        (tasks[t].op = "update" /\ tasks[t].pc = "put") =>
            \A f \in DOMAIN UpdateKeyOf :
                tasks[t].body[f] =
                    IF UpdateKeyOf[f] \in DOMAIN tasks[t].upd
                    THEN tasks[t].upd[UpdateKeyOf[f]]
                    ELSE tasks[t].entry[f]

\* Tags t1 replaced by t1, t2; description, project and billable kept.
C14_Witness ==
    \E t \in DOMAIN tasks :
        /\ tasks[t].op = "update" /\ tasks[t].pc = "put"
        /\ tasks[t].upd = [tagIds |-> <<"t1", "t2">>]
        /\ tasks[t].entry.tags = <<"t1">>
        /\ tasks[t].body.tags = <<"t1", "t2">>
        /\ tasks[t].body.description = tasks[t].entry.description
        /\ tasks[t].body.billable = tasks[t].entry.billable

\* C15: when an update issues its PUT while an entry is cached, the payload
\* carries, for each field the update does not name, the value of the
\* entry cached at that moment.
C15_MergeBaseIsCurrentEntry ==
    (/\ ev.kind = "UpdateAfterMembers" /\ Issued("update", "put")
     /\ activeTimeEntry # Null)
        => \A f \in DOMAIN UpdateKeyOf :
              UpdateKeyOf[f] \notin DOMAIN tasks[Len(tasks)].upd
                  => tasks[Len(tasks)].body[f] = activeTimeEntry[f]

\* C16: when a refresh fails with status 401 or 403, the status bar shows
\* the authentication error, which is neither the idle text nor the text
\* of any other failure.
C16_AuthErrorIsDistinct ==
    (ev.kind = "UpdateStatusDone" /\ ev.resp.status \in {401, 403})
        => /\ statusBar = "AuthError"
           /\ statusBar # renderStatusBar(Null)
           /\ statusBar # "Error"

\* A running timer replaced by the authentication error on a 403.
C16_Witness ==
    /\ ev.kind = "UpdateStatusDone" /\ ev.resp.status = 403
    /\ ev.prev # Null /\ statusBar = "AuthError"

\* C17: when a refresh fails otherwise (a server error, no answer), the
\* cached entry is none and the status bar shows the error.
C17_FailedRefreshClears ==
    (/\ ev.kind = "UpdateStatusDone" /\ ~RefreshAnswered(ev.resp)
     /\ ev.resp.status \notin {401, 403})
        => activeTimeEntry = Null /\ statusBar = "Error"

\* A running timer dropped on a server error.
C17_Witness ==
    /\ ev.kind = "UpdateStatusDone" /\ ev.resp.status = 500
    /\ ev.prev # Null /\ activeTimeEntry = Null /\ statusBar = "Error"

\* C18: on a 404, getActiveTimeEntry resolves to null without an error,
\* the transport shows no notice, the refresh shows none either, and the
\* controller is Idle with the idle text in the status bar.
C18_NotFoundIsIdle ==
    (ev.kind = "UpdateStatusDone" /\ ev.resp.status = 404)
        => /\ getActiveTimeEntry(ev.resp) = [ok |-> TRUE, val |-> Null]
           /\ ev.transport = 0
           /\ ev.op = "refresh" => ev.said = <<>>
           /\ activeTimeEntry = Null
           /\ statusBar = "Idle"

\* A periodic refresh answered 404 while Idle: nothing shown.
C18_Witness ==
    /\ ev.kind = "UpdateStatusDone" /\ ev.op = "refresh"
    /\ ev.resp.status = 404 /\ ev.prev = Null
    /\ ev.transport = 0 /\ ev.said = <<>> /\ statusBar = "Idle"

\* C19: for every request that ended in failure the transport showed
\* exactly one notice.
C19_TransportNotifiesOnce ==
    FailedAnswer => ev.transport = 1

\* A stop PUT that got no answer: the network error notice, once.
C19_Witness ==
    /\ ev.kind = "StopAfterPut" /\ ev.resp.status = 0 /\ ev.transport = 1

\* The notices by which the plugin itself announces a failure.
FailureNotices ==
    {"auth-error", "update-failed", "no-user", "user-not-in-org",
     "no-member-id"}

\* C20: for every request that ended in failure, the notices about it, the
\* transport's and the plugin's together, are exactly one.
C20_FailureAnnouncedOnce ==
    FailedAnswer
        => ev.transport
             + Cardinality({i \in DOMAIN ev.said : ev.said[i] \in FailureNotices})
           = 1


\* The answer of a page request is a page: a body with a data array.
WellFormed(resp) ==
    /\ resp.status = 200 /\ "body" \in DOMAIN resp
    /\ "data" \in DOMAIN resp.body

\* The link a well-formed page carries, none when it has no links.
LinkOf(resp) ==
    IF "links" \in DOMAIN resp.body THEN resp.body.links.next ELSE NoStr

\* The pages from u on form a finite chain of well-formed pages.
RECURSIVE FiniteChain(_, _, _)
FiniteChain(pages, u, seen) ==
    \/ u = NoStr
    \/ /\ u \notin seen
       /\ WellFormed(pages[u])
       /\ FiniteChain(pages, LinkOf(pages[u]), seen \cup {u})

\* The data arrays of such a chain, one after the other.
RECURSIVE ChainData(_, _)
ChainData(pages, u) ==
    IF u = NoStr THEN <<>>
    ELSE pages[u].body.data \o ChainData(pages, LinkOf(pages[u]))

\* C22: every call of fetchAllPaginated ends, whatever the service answers:
\* the loop is left after finitely many pages.
C22_FetchTerminates == <>(pager.pc # "loop")

\* C23: when the pages from the first URL on form a finite chain of
\* well-formed pages holding fewer items than the ceiling in all,
\* fetchAllPaginated returns the pages' data arrays one after the other, in
\* the order of the chain.
C23_ReturnsPagesInOrder ==
    (/\ pager.pc = "returned"
     /\ FiniteChain(pager.pages, "u1", {})
     /\ Count(ChainData(pager.pages, "u1")) < Ceiling)
        => pager.allData = ChainData(pager.pages, "u1")

\* Three linked pages of as many items each: all of them, in page order.
C23_Witness ==
    /\ pager.pc = "returned"
    /\ pager.allData = Items("u1", 3000) \o Items("u2", 3000)
                           \o Items("u3", 3000)
    /\ FiniteChain(pager.pages, "u1", {})

\* C24: when a page request is answered without a body, or with a body that
\* has no data array, fetchAllPaginated returns at once what it had
\* accumulated: it does not throw and follows no link.
C24_BadPageEndsQuietly ==
    (/\ ev.kind = "FetchPage"
     /\ Succeeded(ev.resp) /\ ~WellFormed(ev.resp))
        => /\ pager.pc = "returned"
           /\ pager.allData = ev.before.allData
           /\ pager.nextPageUrl = NoStr

\* The second page has a next link but no data array: the first page's
\* items are returned and the link is not followed.
C24_Witness ==
    /\ ev.kind = "FetchPage" /\ ev.resp.status = 200
    /\ "body" \in DOMAIN ev.resp /\ "data" \notin DOMAIN ev.resp.body
    /\ ev.resp.body.links.next # NoStr
    /\ pager.pc = "returned" /\ pager.allData = Items("u1", 3000)

\* A page request answered 204: what was accumulated is returned.
C24_WitnessAbsent ==
    /\ ev.kind = "FetchPage" /\ ev.resp.status = 204
    /\ pager.pc = "returned" /\ pager.allData = Items("u1", 6000)

\* C25: a cache refresh is all-or-nothing: once loadSolidTimeData has
\* completed, the three caches hold the lists of its combined fetch, or, one
\* of the three fetches having failed, all three are empty.
C25_RefreshAllOrNothing ==
    ev.kind = "LoadAfterFetch" =>
        IF ev.given = {}
        THEN data = [projects |-> ev.resp.lists.projects,
                     tasks |-> ev.resp.lists.tasks,
                     tags |-> ev.resp.lists.tags]
        ELSE data = NoData

\* C26: creating a tag whose name is already in the plugin's tag cache issues
\* no POST and leaves the cache as it was.
C26_DuplicateTagRejected ==
    (ev.kind = "ModalCreate"
       /\ \E i \in DOMAIN ev.before.tags : ev.before.tags[i].name = ev.given)
    => /\ Len(tasks) = ev.n
       /\ data = ev.before

\* The tag cache is in the order of localeCompare.
SortedByName(list) ==
    \A i, j \in DOMAIN list :
        i < j => localeCompare(list[i].name, list[j].name) <= 0

\* C27: after a creation has succeeded the new tag is in the tag cache
\* exactly once and the cache is sorted by name; after a failed creation the
\* cache is as it was.
C27_CreatedTagCachedOnce ==
    ev.kind = "CreateTagAfterPost" =>
        IF createTag(ev.resp).ok
        THEN /\ Cardinality({i \in DOMAIN data.tags :
                               data.tags[i] = createTag(ev.resp).val}) = 1
             /\ SortedByName(data.tags)
        ELSE data = ev.before

\* Something the operation needs is missing from the settings: the API key,
\* the base URL, the organization or, for a start, the member id.
Missing(op) ==
    \/ settings.apiKey = NoStr
    \/ settings.apiBaseUrl = NoStr
    \/ settings.selectedOrganizationId = NoStr
    \/ op = "start" /\ settings.selectedMemberId = NoStr

\* C21: a start, stop or update invoked while the API key, the base URL, the
\* organization or (for a start) the member id is missing issues no request,
\* leaves the cached entry as it was and shows a notice.
C21_UnconfiguredDoesNothing ==
    (ev.kind \in {"startTimer", "stopCurrentTimer", "updateActiveTimerDetails"}
       /\ Missing(ev.op))
    => /\ Len(tasks) = ev.n
       /\ activeTimeEntry = ev.prev
       /\ ev.said # <<>>

\* The timers of the window that call fn.
Armed(fn) == {i \in window.intervals : i.fn = fn}

\* The step has ended with setupIntervals.
IntervalsSetUp == "armed" \in DOMAIN ev /\ ev.armed

\* C28: at every moment at most one status timer and at most one data timer
\* is armed, and every armed timer is the one whose handle the plugin holds.
C28_OneTimerEach ==
    /\ Cardinality(Armed("updateStatus")) <= 1
    /\ Cardinality(Armed("loadSolidTimeData")) <= 1
    /\ \A i \in Armed("updateStatus") : i.id = statusIntervalId
    /\ \A i \in Armed("loadSolidTimeData") : i.id = fetchIntervalId

\* Two saveSettings calls overlap and the second round of setupIntervals has
\* armed both timers anew while a save is still in flight.
C28_Witness ==
    /\ IntervalsSetUp
    /\ window.next >= 7
    /\ \E t \in DOMAIN tasks : tasks[t].op = "save"
    /\ Armed("updateStatus") # {} /\ Armed("loadSolidTimeData") # {}

\* C29: once the intervals have been set up, an interval value of 0 leaves
\* its timer unarmed, and it does so independently: the other timer is
\* armed whenever its own value and the configuration allow it.
C29_ZeroDisables ==
    IntervalsSetUp =>
        /\ settings.statusBarUpdateIntervalSeconds = 0
              => Armed("updateStatus") = {}
        /\ settings.autoFetchIntervalMinutes = 0
              => Armed("loadSolidTimeData") = {}
        /\ (settings.statusBarUpdateIntervalSeconds = 0
              /\ settings.autoFetchIntervalMinutes > 0 /\ api # Null
              /\ settings.selectedOrganizationId # NoStr)
              => Armed("loadSolidTimeData") # {}
        /\ (settings.autoFetchIntervalMinutes = 0
              /\ settings.statusBarUpdateIntervalSeconds > 0 /\ api # Null)
              => Armed("updateStatus") # {}

\* The status interval set to 0 and the intervals set up: no status timer,
\* the data timer armed.
C29_Witness ==
    /\ IntervalsSetUp
    /\ settings.statusBarUpdateIntervalSeconds = 0
    /\ settings.autoFetchIntervalMinutes > 0
    /\ Armed("updateStatus") = {} /\ Armed("loadSolidTimeData") # {}

\* The data interval set to 0 and the intervals set up: no data timer, the
\* status timer armed.
C29_WitnessFetchOff ==
    /\ IntervalsSetUp
    /\ settings.autoFetchIntervalMinutes = 0
    /\ settings.statusBarUpdateIntervalSeconds > 0
    /\ Armed("loadSolidTimeData") = {} /\ Armed("updateStatus") # {}

\* C30: every step of the plugin that changes the cached entry calls
\* updateSolidTimeView.
C30_ViewToldOfEveryChange ==
    (ev.kind # "init" /\ activeTimeEntry # ev.prev) => ev.view

\* The cached entry lacks organization_id or start.
Incomplete(entry) ==
    entry # Null /\ (entry.organization_id = NoStr \/ entry.start = NoStr)

\* The step took a stop or an update to its check of the cached entry: the
\* invocation with the client and the user known, or the resumption with
\* the user fetched.
ReachedEntryCheck ==
    \/ /\ ev.kind \in {"stopCurrentTimer", "updateActiveTimerDetails"}
       /\ api # Null /\ currentUser # NoStr
    \/ /\ ev.kind \in {"StopAfterMe", "UpdateAfterMe"}
       /\ Succeeded(ev.resp)

\* C31: a stop or an update that finds the cached entry without
\* organization_id or start issues no PUT and requests a status refresh:
\* the request the step leaves newest in flight is the refresh's.
C31_IncompleteEntryRefreshes ==
    (ReachedEntryCheck /\ Incomplete(ev.prev))
    => /\ Len(tasks) > 0
       /\ tasks[Len(tasks)].pc = "status"
       /\ Pending(Len(tasks))

\* C32: once the error handling of a failed write has finished, the cached
\* entry is the entry cached before the write or the answer of the refetch
\* made after the failure. A failed start has no refetch and started from
\* no entry; a failed stop or update ends with the answer of its refetch.
C32_FailedWriteLeavesKnownState ==
    /\ (ev.kind = "StartAfterPost" /\ ~startTimeEntry(ev.resp).ok)
          => activeTimeEntry = Null
    /\ (ev.kind = "UpdateStatusDone" /\ ev.op \in {"stop", "update"})
          => \/ activeTimeEntry = ev.entry
             \/ /\ RefreshAnswered(ev.resp)
                /\ activeTimeEntry = Reported(ev.resp)

\* C33: the cached user is refetched whenever the authentication material
\* changes: the step of saveSettings that replaces the client by one with
\* another key or base URL leaves no cached user or has issued getMe with
\* the new client.
C33_UserRefetchedOnNewCredentials ==
    [][(ev'.kind = "SaveAfterData" /\ api' # Null /\ api' # api)
         => \/ currentUser' = NoStr
            \/ /\ Len(tasks') > 0
               /\ tasks'[Len(tasks')].pc = "me"]_vars

\* C34: getMembers never propagates a failure: a stop or an update whose
\* member fetch failed ends there, as `member not found`, the cached entry
\* untouched and no PUT issued.
C34_FailedMemberFetchEndsQuietly ==
    (ev.kind \in {"StopAfterMembers", "UpdateAfterMembers"}
     /\ ~Succeeded(ev.resp))
        => /\ ev.said[1] = "user-not-in-org"
           /\ Len(tasks) = ev.n - 1
           /\ activeTimeEntry = ev.prev

\* A stop whose member fetch got no answer, the user being a member of the
\* entry's organization and the member id cached: the timer stays cached.
C34_Witness ==
    /\ ev.kind = "StopAfterMembers" /\ ev.resp.status = 0
    /\ settings.selectedMemberId # NoStr
    /\ IdsOf(srvMembers[ev.prev.organization_id], currentUser) # {}
    /\ activeTimeEntry # Null /\ tasks = <<>>

\* The same for an update.
C34_WitnessUpdate ==
    /\ ev.kind = "UpdateAfterMembers" /\ ~Succeeded(ev.resp)
    /\ activeTimeEntry # Null /\ tasks = <<>>

\* An operation of one of the given kinds was in flight when the operation
\* observed was invoked.
InFlightAtInvocation(ops) ==
    \E t \in 1..ev.n : t \in DOMAIN tasks /\ tasks[t].op \in ops

\* The write request (POST or PUT) of such an operation was in flight then.
WriteInFlightAtInvocation(ops) ==
    \E t \in 1..ev.n : /\ t \in DOMAIN tasks /\ tasks[t].op \in ops
                       /\ tasks[t].pc \in {"post", "put"}

\* The operation observed has issued a request of its own.
IssuedOwnRequest ==
    /\ Len(tasks) = ev.n + 1
    /\ tasks[Len(tasks)].op = ev.op
    /\ Pending(Len(tasks))

\* C35 as claimed: a start invoked while the write of a start or of a stop
\* is in flight, and a stop invoked while the write of a stop or of an
\* update is in flight, issues its own request (the plugin fully
\* configured).
C35_SecondWriteIssuesRequest ==
    (/\ settings.selectedMemberId # NoStr
     /\ \/ /\ ev.kind = "startTimer"
           /\ WriteInFlightAtInvocation({"start", "stop"})
        \/ /\ ev.kind = "stopCurrentTimer"
           /\ WriteInFlightAtInvocation({"stop", "update"}))
        => IssuedOwnRequest

\* C35 amended: a start or a stop invoked while another write is in flight
\* is never queued nor refused on account of that operation: it issues its
\* own request whenever its own check of the cached entry passes (no entry
\* cached for a start, an entry cached for a stop).
C35_SecondWriteNotSerialized ==
    /\ (/\ ev.kind = "startTimer"
        /\ InFlightAtInvocation({"start", "stop", "update"})
        /\ settings.selectedMemberId # NoStr /\ ev.prev = Null)
          => IssuedOwnRequest
    /\ (/\ ev.kind = "stopCurrentTimer"
        /\ InFlightAtInvocation({"start", "stop", "update"})
        /\ ev.prev # Null)
          => IssuedOwnRequest

\* Stop during stop: the second stop fetches the members while the first
\* still does.
C35_Witness ==
    /\ ev.kind = "stopCurrentTimer" /\ Len(tasks) = 2
    /\ \A t \in DOMAIN tasks : tasks[t].op = "stop" /\ tasks[t].pc = "members"

\* Start during stop: the first stop's PUT is in flight, the second
\* operation's POST is issued.
C35_WitnessStartDuringStop ==
    /\ ev.kind = "startTimer" /\ Len(tasks) = 2
    /\ tasks[1].op = "stop" /\ tasks[1].pc = "put"
    /\ tasks[2].op = "start" /\ tasks[2].pc = "post"

\* Start during start and stop during update.
C35_WitnessStartDuringStart ==
    /\ ev.kind = "startTimer" /\ Len(tasks) = 2
    /\ \A t \in DOMAIN tasks : tasks[t].op = "start" /\ tasks[t].pc = "post"

C35_WitnessStopDuringUpdate ==
    /\ ev.kind = "stopCurrentTimer" /\ Len(tasks) = 2
    /\ tasks[1].op = "update" /\ tasks[1].pc = "put"
    /\ tasks[2].op = "stop" /\ tasks[2].pc = "members"

\* C36: the network-error notice is shown only when no response was
\* obtained: a request that received an HTTP response, a 2xx whose body is
\* no JSON included, is never reported as a network error.
C36_NetworkErrorOnlyWithoutResponse ==
    ("network" \in DOMAIN ev /\ ev.t # 0 /\ ev.network > 0)
        => ev.resp.status = 0

\* C37: whenever the plugin is unconfigured (the API key or the base URL
\* missing, no client) and no operation is running, no entry is cached: a
\* refresh in flight when the configuration was removed does not bring the
\* cached entry back afterwards.
C37_UnconfiguredIsIdle ==
    (/\ settings.apiKey = NoStr \/ settings.apiBaseUrl = NoStr
     /\ api = Null
     /\ tasks = <<>>)
        => activeTimeEntry = Null

\* C38: a periodic timer is armed only while the plugin is fully configured:
\* once the changes of the settings have been carried out, if no
\* organization is selected neither timer is armed.
C38_NoOrganizationNoTimer ==
    (settings.selectedOrganizationId = NoStr /\ tasks = <<>>)
        => Armed("updateStatus") = {} /\ Armed("loadSolidTimeData") = {}

\* A refresh of the caches is in flight: a load, or a saveSettings that has
\* its load still before it.
RefreshInFlight ==
    \E t \in DOMAIN tasks : tasks[t].op \in {"load", "save"}

\* C39: once all cache refreshes in flight have completed, the cached
\* projects, tasks and tags are those of the organization selected now (or
\* nothing): a fetch started for an earlier organization, or started
\* earlier, never replaces the result of a fetch started later.
C39_CachesOfSelectedOrganization ==
    ~RefreshInFlight
        => \A what \in {"projects", "tasks", "tags"} :
              \/ data[what] = <<>>
              \/ /\ settings.selectedOrganizationId # NoStr
                 /\ data[what] =
                       SrvDataOf(settings.selectedOrganizationId)[what]

\* The last step was the status timer's, the service's, or a refresh of the
\* timer answered by the service: no operation of the user or of another
\* client, no request that failed.
Quiet ==
    \/ ev.kind = "updateStatus"
    \/ ev.kind = "Serve"
    \/ /\ ev.kind = "UpdateStatusDone" /\ ev.op = "refresh"
       /\ RefreshAnswered(ev.resp)

\* C40: with the service reachable, the status timer armed and no further
\* operation issued, after any history the cached entry eventually equals
\* the service's active entry and stays equal.
C40_RefreshConverges ==
    <>[]Quiet => <>[](activeTimeEntry = srvActive)

\* After the user's operations a refresh of the timer replaces a cached
\* entry that was not the service's by the service's.
C40_Witness ==
    /\ ev.kind = "UpdateStatusDone" /\ ev.op = "refresh"
    /\ RefreshAnswered(ev.resp)
    /\ nOps = MaxOps
    /\ ev.prev # srvActive /\ activeTimeEntry = srvActive

====
